---- MODULE Spec2Model ----
(***************************************************************************)
(* Multi-echelon inventory simulation engine (engine/network.py,           *)
(* engine/node.py, engine/simulator.py, policies/order_up_to.py).          *)
(*                                                                         *)
(* The specifications share the variables: Spec is one Simulator.run over  *)
(* a network built by Network(...); the others (SpecNet, SpecPol, ...)     *)
(* are runs over other configurations or calls of single operations, each  *)
(* introduced where its properties are stated.                             *)
(***************************************************************************)
EXTENDS Integers, Sequences, FiniteSets, TLC

VARIABLES
    \* ---- Network (engine/network.py)
    nodes,                  \* registry order of node ids (dict insertion order)
    node_cfg,               \* id -> static Node fields (type, infinite_supply, policy, ...)
    edges,                  \* dict (parent, child) -> [Edge], as a sequence of entries in insertion order
    parents_of,             \* dict child -> parent
    children_of,            \* dict parent -> list of children
    net_status,             \* "none" | "ok" | "failed": outcome of the constructor
    last_call,              \* the last Network call and whether it raised
    \* ---- Node dynamic state (engine/node.py)
    on_hand,
    backlog_external,
    backlog_children,       \* id -> dict child -> qty (a function on the dict's keys)
    pipeline_in,            \* id -> list of Shipment
    inbound_orders_queue,   \* id -> list of IncomingOrder
    \* ---- Simulator.run (engine/simulator.py)
    pc,                     \* position in run()
    t,                      \* loop variable of run()
    topo,                   \* result of _topological_order()
    order_processing_delay,
    mode,
    orders_waiting,         \* dict parent -> list of (process_time, child, qty)
    received_today,
    orders_today,
    metrics,                \* list of MetricsRow
    \* ---- observations of the run (return values and on_ship notifications)
    demand_today,           \* retailer -> (sampled demand, fulfilled, unfilled) of this period
    cleared_today,          \* retailer -> units of backlog served in phase 1a of this period
    shipped_today,          \* on_ship notifications (parent, child, t, L, qty) of the latest fulfilment
                            \* phase, kept until phase 1a of the next period
    served_total,           \* cumulative units handed to external customers
    prev_on_hand,           \* on_hand in the previous period's EOD rows
    prev_served,            \* node -> units of demand fulfilled and of backlog cleared in the previous period
    \* ---- OrderUpToPolicy.order_qty call (policies/order_up_to.py)
    pol_args,
    pol_result,
    \* ---- TransportPlanner.plan call (engine/transport.py)
    plan_args,              \* requested_volume and options of the call
    plan_result             \* <<>> before the call, then [raised, shipments]

netvars == <<nodes, node_cfg, edges, parents_of, children_of, net_status, last_call>>
nodevars == <<on_hand, backlog_external, backlog_children, pipeline_in, inbound_orders_queue>>
simvars == <<pc, t, topo, order_processing_delay, mode, orders_waiting, received_today,
             orders_today, metrics>>
obsvars == <<demand_today, cleared_today, shipped_today, served_total, prev_on_hand, prev_served>>
polvars == <<pol_args, pol_result>>
planvars == <<plan_args, plan_result>>
vars == <<netvars, nodevars, simvars, obsvars, polvars, planvars>>

(***************************************************************************)
(* Bounds of the model                                                     *)
(***************************************************************************)
T == 3                  \* Simulator.T, the horizon of the run
MaxDemand == 2          \* the positive demand sample
MaxLead == 2            \* the positive lead-time sample
MaxOrder == 2           \* the positive order quantity of an arbitrary policy
MaxInv == 1             \* the positive initial inventory

Ids == {"A", "B", "C"}
\* samples of a demand generator: a negative one and one above the initial stock
Demands == {-1, MaxDemand}
\* samples of a lead-time sampler: negative, zero and more than one period
LeadTimes == {-1, 0, MaxLead}
\* values an arbitrary policy returns from order_qty
Orders == {-1, MaxOrder}

Max(a, b) == IF a >= b THEN a ELSE b
Min(a, b) == IF a <= b THEN a ELSE b

Range(s) == {s[i] : i \in 1 .. Len(s)}

RECURSIVE SumSeq(_)
SumSeq(s) == IF s = <<>> THEN 0 ELSE Head(s) + SumSeq(Tail(s))

RECURSIVE SumFn(_)
SumFn(f) ==
    IF DOMAIN f = {} THEN 0
    ELSE LET k == CHOOSE x \in DOMAIN f : TRUE
         IN f[k] + SumFn([x \in DOMAIN f \ {k} |-> f[x]])

\* dict.get(k, default) on a function whose domain is the dict's keys
Get(f, k, default) == IF k \in DOMAIN f THEN f[k] ELSE default

\* all orderings of a finite set
Perms(S) == {s \in [1 .. Cardinality(S) -> S] : \A i, j \in 1 .. Cardinality(S) : s[i] = s[j] => i = j}

(***************************************************************************)
(* engine/network.py                                                       *)
(***************************************************************************)
Edge(p, c) == [parent |-> p, child |-> c]

\* index of key (p, c) in the edge dict, 0 if absent
RECURSIVE KeyIndex(_, _, _)
KeyIndex(es, key, i) ==
    IF i > Len(es) THEN 0
    ELSE IF es[i].key = key THEN i
    ELSE KeyIndex(es, key, i + 1)

EdgeKeys(es) == {es[i].key : i \in 1 .. Len(es)}

\* self.edges.setdefault(key, []).append(Edge(...))
EdgesAppend(es, p, c) ==
    LET i == KeyIndex(es, <<p, c>>, 1)
    IN IF i = 0
       THEN Append(es, [key |-> <<p, c>>, list |-> <<Edge(p, c)>>])
       ELSE [es EXCEPT ![i].list = Append(@, Edge(p, c))]

\* the multi-parent test of __post_init__ and add_edge
MultiParent(par, p, c) == c \in DOMAIN par /\ par[c] # p

\* self.parents_of[c] = p
SetParent(par, p, c) == (c :> p) @@ par

\* self.children_of.setdefault(p, []); append c if not present
AddChild(ch, p, c) ==
    LET cur == Get(ch, p, <<>>)
    IN (p :> (IF c \in Range(cur) THEN cur ELSE Append(cur, c))) @@ ch

\* Network.__post_init__: fold over the edge dict; ok = FALSE when it raised
RECURSIVE PostInit(_, _, _)
PostInit(es, i, acc) ==
    IF i > Len(es) \/ ~acc.ok THEN acc
    ELSE LET p == es[i].key[1]
             c == es[i].key[2]
         IN IF MultiParent(acc.parents_of, p, c)
            THEN [acc EXCEPT !.ok = FALSE]
            ELSE PostInit(es, i + 1,
                          [ok |-> TRUE,
                           parents_of |-> SetParent(acc.parents_of, p, c),
                           children_of |-> AddChild(acc.children_of, p, c)])

EmptyMap == [x \in {} |-> 0]

Built(es) == PostInit(es, 1, [ok |-> TRUE, parents_of |-> EmptyMap, children_of |-> EmptyMap])

\* Network.parent_of: None is modelled as <<>>, an id p as <<p>>
parent_of(n) == IF n \in DOMAIN parents_of THEN <<parents_of[n]>> ELSE <<>>

\* Network.children
children(n) == Get(children_of, n, <<>>)

\* Network.add_edge on the maps (es, par, ch): the maps after the call, and whether it raised
add_edge(es, par, ch, p, c) ==
    LET appended == EdgesAppend(es, p, c)
    IN IF MultiParent(par, p, c)
       THEN [edges |-> appended, parents_of |-> par, children_of |-> ch, raised |-> TRUE]
       ELSE [edges |-> appended, parents_of |-> SetParent(par, p, c),
             children_of |-> AddChild(ch, p, c), raised |-> FALSE]

(***************************************************************************)
(* engine/node.py                                                          *)
(***************************************************************************)
Shipment(arrival, q) == [arrival_time |-> arrival, qty |-> q]
IncomingOrder(c, q) == [child_id |-> c, qty |-> q]

\* Node.total_pipeline_in
total_pipeline_in(pl) == SumSeq([i \in 1 .. Len(pl) |-> pl[i].qty])

\* Node.total_backlog_children
total_backlog_children(bc) == SumFn(bc)

\* a variant of receive_shipments that leaves the arrived shipments in the pipeline
receive_shipments_KeepAll(pl, tt) ==
    [arrived |-> total_pipeline_in(SelectSeq(pl, LAMBDA s : s.arrival_time = tt)),
     keep |-> pl]

\* Node.receive_shipments: [arrived, keep]
receive_shipments(pl, tt) ==
    [arrived |-> total_pipeline_in(SelectSeq(pl, LAMBDA s : s.arrival_time = tt)),
     keep |-> SelectSeq(pl, LAMBDA s : s.arrival_time # tt)]

\* a variant of the clipping that lets a negative sample through
ClipDemand_Unclipped(qty) == qty

\* the clipping of the demand sample, max(0, int(demand_qty))
ClipDemand(qty) == Max(0, qty)

\* a variant of process_external_demand that takes the whole demand out of on_hand
process_external_demand_FullDemand(oh, be, qty) ==
    LET d == ClipDemand(qty)
        fulfilled == Min(oh, d)
        unfilled == d - fulfilled
    IN [on_hand |-> oh - d,
        backlog_external |-> IF unfilled > 0 THEN be + unfilled ELSE be,
        fulfilled |-> fulfilled,
        unfilled |-> unfilled]

\* a variant of process_external_demand that forgets the unfilled remainder
process_external_demand_DropUnfilled(oh, be, qty) ==
    LET d == ClipDemand(qty)
        fulfilled == Min(oh, d)
        unfilled == d - fulfilled
    IN [on_hand |-> oh - fulfilled,
        backlog_external |-> be,
        fulfilled |-> fulfilled,
        unfilled |-> unfilled]

\* Node.process_external_demand: new on_hand and backlog_external, and the returned pair
process_external_demand(oh, be, qty) ==
    LET d == ClipDemand(qty)
        fulfilled == Min(oh, d)
        unfilled == d - fulfilled
    IN [on_hand |-> oh - fulfilled,
        backlog_external |-> IF unfilled > 0 THEN be + unfilled ELSE be,
        fulfilled |-> fulfilled,
        unfilled |-> unfilled]

\* a variant of add_inbound_order that replaces the queue by the new entry
add_inbound_order_Replace(queue, c, q) == <<IncomingOrder(c, q)>>

\* Node.add_inbound_order
add_inbound_order(queue, c, q) == Append(queue, IncomingOrder(c, q))

\* the merge of the queued orders per child (the dict `incoming`)
RECURSIVE MergeIncoming(_, _)
MergeIncoming(queue, acc) ==
    IF queue = <<>> THEN acc
    ELSE LET o == Head(queue)
         IN MergeIncoming(Tail(queue), (o.child_id :> (Get(acc, o.child_id, 0) + o.qty)) @@ acc)

\* a variant of the arrival period without the floor of one period
ArrivalTime_NoFloor(tt, L) == tt + L

\* arrival period of a shipment dispatched in period tt with sampled lead time L
ArrivalTime(tt, L) == tt + Max(1, L)

\* a variant of the shipped quantity that ships a need in full or not at all
ShipQty_AllOrNothing(inf, oh, need) == IF inf \/ oh >= need THEN need ELSE 0

\* a variant of the shipped quantity that ignores the stock on hand
ShipQty_IgnoreStock(inf, oh, need) == need

\* quantity shipped to a child with the given need
ShipQty(inf, oh, need) == IF inf THEN need ELSE Min(oh, need)

\* a variant that forgets to take the shipped units out of on_hand
OnHandAfterShip_NoDecrement(inf, oh, ship) == oh

\* the parent's on_hand after shipping `ship` units
OnHandAfterShip(inf, oh, ship) == IF inf THEN oh ELSE oh - ship

\* the body of the loop `for child in children` of Node.process_child_orders, for the
\* children in the order `ord`; st carries the parent's on_hand and backlog_children,
\* every node's pipeline_in, the parent's cleared inbound queue, the returned dict
\* `shipped` and the on_ship notifications
RECURSIVE ServeChildren(_, _, _, _, _, _, _)
ServeChildren(ord, st, parent, inf, incoming, L, tt) ==
    IF ord = <<>> THEN st
    ELSE
      LET child == Head(ord)
          need == Get(st.backlog, child, 0) + Get(incoming, child, 0)
          ship == ShipQty(inf, st.on_hand, need)
          remaining == need - ship
          shippedSt ==
              IF ship > 0
              THEN [st EXCEPT
                      !.on_hand = OnHandAfterShip(inf, @, ship),
                      !.pipes = [@ EXCEPT ![child] = Append(@, Shipment(ArrivalTime(tt, L[child]), ship))],
                      !.shipped = (child :> ship) @@ @,
                      !.log = Append(@, [parent |-> parent, child |-> child, t |-> tt,
                                         L |-> L[child], qty |-> ship])]
              ELSE st
          backlogSt ==
              IF remaining > 0
              THEN [shippedSt EXCEPT !.backlog = (child :> remaining) @@ @]
              ELSE [shippedSt EXCEPT !.backlog = [c \in DOMAIN @ \ {child} |-> @[c]]]
      IN IF need <= 0
         THEN ServeChildren(Tail(ord), st, parent, inf, incoming, L, tt)
         ELSE ServeChildren(Tail(ord), backlogSt, parent, inf, incoming, L, tt)

\* the set `children` iterated by process_child_orders
ServedSet(child_nodes, backlog, incoming) == child_nodes \cup DOMAIN backlog \cup DOMAIN incoming

\* Node.process_child_orders of `parent` in period tt. `perm` is an ordering of all ids:
\* the iteration order of the Python set `children` is the order it induces
process_child_orders(parent, inf, oh, backlog, queue, pipes, child_nodes, perm, L, tt) ==
    LET incoming == MergeIncoming(queue, EmptyMap)
        served == ServedSet(child_nodes, backlog, incoming)
        ord == SelectSeq(perm, LAMBDA c : c \in served)
    IN ServeChildren(ord,
                     [on_hand |-> oh, backlog |-> backlog, pipes |-> pipes,
                      queue |-> <<>>, shipped |-> EmptyMap, log |-> <<>>],
                     parent, inf, incoming, L, tt)

(***************************************************************************)
(* policies/order_up_to.py                                                 *)
(***************************************************************************)
\* a variant of review_due that ignores phase_offset
ReviewDue_NoOffset(pol, tt) ==
    IF tt = <<>> THEN TRUE ELSE (tt[1] % pol.R) = 0

\* review_due of OrderUpToPolicy.order_qty; tt is <<>> when the caller passes no t
ReviewDue(pol, tt) ==
    IF tt = <<>> THEN TRUE ELSE ((tt[1] - pol.phase_offset) % pol.R) = 0

\* the inventory position read by the policy
InventoryPosition(oh, be, bc, pipe) == oh - (be + bc) + pipe

\* OrderUpToPolicy.order_qty
order_qty(pol, oh, be, bc, pipe, tt) ==
    IF ~ReviewDue(pol, tt) THEN 0
    ELSE Max(0, pol.S - InventoryPosition(oh, be, bc, pipe))

(***************************************************************************)
(* engine/simulator.py                                                     *)
(***************************************************************************)
MetricsRow(tt, nid, oh, be, bc, pl, otp, rec, phase) ==
    [t |-> tt, node_id |-> nid, on_hand |-> oh, backlog_external |-> be,
     backlog_children |-> bc, pipeline_in |-> pl, orders_to_parent |-> otp,
     received |-> rec, phase |-> phase]

\* a variant of _record that ignores its phase argument and labels every row "EOD"
Record_AllEod(tt, nid, oh, be, bcs, pls, rec, otp, phase) ==
    MetricsRow(tt, nid, oh[nid], be[nid], total_backlog_children(bcs[nid]),
               total_pipeline_in(pls[nid]), otp, rec, "EOD")

\* Simulator._record on the node state (oh, be, bcs, pls): the row appended for nid
Record(tt, nid, oh, be, bcs, pls, rec, otp, phase) ==
    MetricsRow(tt, nid, oh[nid], be[nid], total_backlog_children(bcs[nid]),
               total_pipeline_in(pls[nid]), otp, rec, phase)

NodeSet == Range(nodes)

\* a variant of the in-degrees that counts every route of a (parent, child) pair
InDegree_PerRoute(n) ==
    LET mine == SelectSeq(edges, LAMBDA e : e.key[2] = n)
    IN SumSeq([i \in 1 .. Len(mine) |-> Len(mine[i].list)])

\* in-degrees of _topological_order: one per key of the edge dict
InDegree(n) == Cardinality({k \in EdgeKeys(edges) : k[2] = n})

\* the elimination loop of _topological_order: queue q, output out, in-degrees indeg
RECURSIVE Kahn(_, _, _)
RECURSIVE Relax(_, _, _)
Relax(cs, q, indeg) ==
    IF cs = <<>> THEN [q |-> q, indeg |-> indeg]
    ELSE LET v == Head(cs)
             d == indeg[v] - 1
         IN Relax(Tail(cs), IF d = 0 THEN Append(q, v) ELSE q, [indeg EXCEPT ![v] = d])

Kahn(q, out, indeg) ==
    IF q = <<>> THEN out
    ELSE LET u == Head(q)
             r == Relax(children(u), Tail(q), indeg)
         IN Kahn(r.q, Append(out, u), r.indeg)

\* a variant of _topological_order without the test of the output's length
TopologicalOrder_NoCheck ==
    LET indeg == [n \in NodeSet |-> InDegree(n)]
        out == Kahn(SelectSeq(nodes, LAMBDA n : indeg[n] = 0), <<>>, indeg)
    IN [ok |-> TRUE, out |-> out]

\* Simulator._topological_order; ok = FALSE when it raises ValueError
TopologicalOrder ==
    LET indeg == [n \in NodeSet |-> InDegree(n)]
        out == Kahn(SelectSeq(nodes, LAMBDA n : indeg[n] = 0), <<>>, indeg)
    IN [ok |-> Len(out) = Len(nodes), out |-> out]

IsRetailer(n) == node_cfg[n].node_type = "retailer"
IsInfinite(n) == node_cfg[n].infinite_supply

\* rows appended for the nodes of seq (in that order) that satisfy keep
RECURSIVE RowsFor(_, _, _, _, _, _, _, _, _, _)
RowsFor(seq, keep, tt, oh, be, bcs, pls, rec, otp, phase) ==
    IF seq = <<>> THEN <<>>
    ELSE LET n == Head(seq)
             rest == RowsFor(Tail(seq), keep, tt, oh, be, bcs, pls, rec, otp, phase)
         IN IF n \in keep
            THEN <<Record(tt, n, oh, be, bcs, pls, rec[n], otp[n], phase)>> \o rest
            ELSE rest

Zero == [n \in NodeSet |-> 0]

\* a variant of the mode test that appends the rows of a phase in every mode
Detailed_Always(m, rows) == rows

\* rows of a phase, appended only when the mode m of the run is "detailed"
Detailed(m, rows) == IF m = "detailed" THEN rows ELSE <<>>

\* run(): topo = self._topological_order(); orders_waiting = {}
StartIn(m, rows, rowsNext) ==
    /\ pc = "start"
    /\ LET r == TopologicalOrder
       IN /\ topo' = r.out
          /\ pc' = IF ~r.ok THEN "error" ELSE IF T > 0 THEN "arrivals" ELSE "done"
    /\ orders_waiting' = EmptyMap
    /\ UNCHANGED <<netvars, nodevars, obsvars, polvars, planvars>>
    /\ UNCHANGED <<t, order_processing_delay, mode, received_today, orders_today>>
    /\ rowsNext = rows

\* the start of the run in its own mode, appending to its own rows
Start == StartIn(mode, metrics, metrics')

\* 1) Arrivals (with the creation of received_today and orders_today at the loop head)
ArrivalsIn(m, rows, rowsNext) ==
    /\ pc = "arrivals"
    /\ LET rs == [n \in NodeSet |-> receive_shipments(pipeline_in[n], t)]
           oh == [n \in NodeSet |-> on_hand[n] + rs[n].arrived]
           pls == [n \in NodeSet |-> rs[n].keep]
           rec == [n \in NodeSet |-> rs[n].arrived]
       IN /\ on_hand' = oh
          /\ pipeline_in' = pls
          /\ received_today' = rec
          /\ rowsNext = rows \o Detailed(m, RowsFor(topo, NodeSet, t, oh, backlog_external,
                                                     backlog_children, pls, rec, Zero,
                                                     "after_arrivals"))
    /\ orders_today' = Zero
    /\ demand_today' = EmptyMap
    /\ cleared_today' = Zero
    /\ pc' = "backlog_clear"
    /\ UNCHANGED <<netvars, polvars, planvars, backlog_external, backlog_children, inbound_orders_queue>>
    /\ UNCHANGED <<t, topo, order_processing_delay, mode, orders_waiting>>
    /\ UNCHANGED <<shipped_today, served_total, prev_on_hand, prev_served>>

\* phase 1 of the run in its own mode, appending to its own rows
Arrivals == ArrivalsIn(mode, metrics, metrics')

\* a variant of phase 1a that serves at most one unit of backlog per period
ServedBacklog_OneUnit(n) ==
    IF IsRetailer(n) /\ backlog_external[n] > 0 /\ on_hand[n] > 0
    THEN 1
    ELSE 0

\* a variant of phase 1a that serves all units on hand whatever the backlog is
ServedBacklog_AllOnHand(n) ==
    IF IsRetailer(n) /\ backlog_external[n] > 0 /\ on_hand[n] > 0
    THEN on_hand[n]
    ELSE 0

\* a variant of phase 1a that serves no backlog
ServedBacklog_None(n) == 0

\* units of external backlog a node serves in phase 1a
ServedBacklog(n) ==
    IF IsRetailer(n) /\ backlog_external[n] > 0 /\ on_hand[n] > 0
    THEN Min(on_hand[n], backlog_external[n])
    ELSE 0

\* 1a) Serve external backlog after arrivals, before new demand
BacklogClearIn(m, rows, rowsNext) ==
    /\ pc = "backlog_clear"
    /\ LET served == [n \in NodeSet |-> ServedBacklog(n)]
           oh == [n \in NodeSet |-> on_hand[n] - served[n]]
           be == [n \in NodeSet |-> backlog_external[n] - served[n]]
       IN /\ on_hand' = oh
          /\ backlog_external' = be
          /\ cleared_today' = served
          /\ served_total' = served_total + SumFn(served)
          /\ rowsNext = rows \o Detailed(m, RowsFor(topo, {n \in NodeSet : served[n] > 0}, t, oh, be,
                                                     backlog_children, pipeline_in, Zero, Zero,
                                                     "after_backlog_clear"))
    /\ pc' = "demand"
    /\ UNCHANGED <<netvars, polvars, planvars, backlog_children, pipeline_in, inbound_orders_queue>>
    /\ UNCHANGED <<t, topo, order_processing_delay, mode, orders_waiting, received_today, orders_today>>
    /\ shipped_today' = <<>>
    /\ UNCHANGED <<demand_today, prev_on_hand, prev_served>>

\* phase 1a of the run in its own mode, appending to its own rows
BacklogClear == BacklogClearIn(mode, metrics, metrics')

\* 2) External demand of period t: d[n] is the sample dgen(t) of retailer n
DemandIn(m, rows, rowsNext) ==
    /\ pc = "demand"
    /\ \E d \in [{n \in NodeSet : IsRetailer(n)} -> Demands] :
         LET r == [n \in DOMAIN d |-> process_external_demand(on_hand[n], backlog_external[n], d[n])]
             oh == [n \in NodeSet |-> IF n \in DOMAIN d THEN r[n].on_hand ELSE on_hand[n]]
             be == [n \in NodeSet |-> IF n \in DOMAIN d THEN r[n].backlog_external
                                      ELSE backlog_external[n]]
         IN /\ on_hand' = oh
            /\ backlog_external' = be
            /\ demand_today' = [n \in DOMAIN d |-> [demand |-> d[n], fulfilled |-> r[n].fulfilled,
                                                    unfilled |-> r[n].unfilled]]
            /\ served_total' = served_total + SumFn([n \in DOMAIN d |-> r[n].fulfilled])
            /\ rowsNext = rows \o Detailed(m, RowsFor(topo, DOMAIN d, t, oh, be, backlog_children,
                                                       pipeline_in, Zero, Zero, "after_demand"))
    /\ pc' = "ship"
    /\ UNCHANGED <<netvars, polvars, planvars, backlog_children, pipeline_in, inbound_orders_queue>>
    /\ UNCHANGED <<t, topo, order_processing_delay, mode, orders_waiting, received_today, orders_today>>
    /\ UNCHANGED <<cleared_today, shipped_today, prev_on_hand, prev_served>>

\* phase 2 of the run in its own mode, appending to its own rows
Demand == DemandIn(mode, metrics, metrics')

\* the orders of parent p that are due in period t, as (child, qty) pairs
Take(p) ==
    LET due == SelectSeq(orders_waiting[p], LAMBDA o : o[1] = t)
    IN [i \in 1 .. Len(due) |-> <<due[i][2], due[i][3]>>]

\* the orders of parent p that keep waiting
Rest(p) == SelectSeq(orders_waiting[p], LAMBDA o : o[1] # t)

DueParents == {p \in DOMAIN orders_waiting : Take(p) # <<>>}

\* a variant of the enqueueing loop that hands over only the first due item
Enqueue_FirstOnly(queue, items) ==
    IF items = <<>> THEN queue
    ELSE add_inbound_order(queue, Head(items)[1], Head(items)[2])

\* parent.add_inbound_order(child, q) for every due item
RECURSIVE Enqueue(_, _)
Enqueue(queue, items) ==
    IF items = <<>> THEN queue
    ELSE Enqueue(add_inbound_order(queue, Head(items)[1], Head(items)[2]), Tail(items))

\* the loop `for parent_id, items in due.items()`; ns carries the node fields
RECURSIVE ServeParents(_, _, _, _)
ServeParents(ps, ns, perm, L) ==
    IF ps = <<>> THEN ns
    ELSE LET p == Head(ps)
             queue == Enqueue(ns.queue[p], Take(p))
             r == process_child_orders(p, IsInfinite(p), ns.on_hand[p], ns.backlog_children[p],
                                       queue, ns.pipeline_in, Range(children(p)), perm, L, t)
         IN ServeParents(Tail(ps),
                         [on_hand |-> [ns.on_hand EXCEPT ![p] = r.on_hand],
                          backlog_children |-> [ns.backlog_children EXCEPT ![p] = r.backlog],
                          pipeline_in |-> r.pipes,
                          queue |-> [ns.queue EXCEPT ![p] = r.queue],
                          log |-> ns.log \o r.log],
                         perm, L)

\* the ids some due parent iterates over in process_child_orders
ShipTargets ==
    UNION {ServedSet(Range(children(p)), backlog_children[p],
                     MergeIncoming(Enqueue(inbound_orders_queue[p], Take(p)), EmptyMap))
           : p \in DueParents}

\* the node fields after the loop over the due parents, taken in registry order (the
\* effects of two parents touch different fields)
Served(perm, L) ==
    ServeParents(SelectSeq(nodes, LAMBDA p : p \in DueParents),
                 [on_hand |-> on_hand, backlog_children |-> backlog_children,
                  pipeline_in |-> pipeline_in, queue |-> inbound_orders_queue, log |-> <<>>],
                 perm, L)

\* the children that get a shipment when the sets are iterated in the order perm: the
\* ones whose sampler is called (which children ship does not depend on the samples)
Sampled(perm) ==
    LET dry == Served(perm, [c \in ShipTargets |-> 1]).log
    IN {dry[i].child : i \in 1 .. Len(dry)}

\* 3) Parents process the child orders due at t; L[c] is the sample of child c's sampler
ShipIn(m, rows, rowsNext) ==
    /\ pc = "ship"
    /\ \E perm \in Perms(ShipTargets) : \E L \in [Sampled(perm) -> LeadTimes] :
         LET ns == Served(perm, L)
         IN /\ on_hand' = ns.on_hand
            /\ backlog_children' = ns.backlog_children
            /\ pipeline_in' = ns.pipeline_in
            /\ inbound_orders_queue' = ns.queue
            /\ shipped_today' = ns.log
            /\ rowsNext = rows \o Detailed(m, RowsFor(topo, NodeSet, t, ns.on_hand, backlog_external,
                                                       ns.backlog_children, ns.pipeline_in, Zero,
                                                       Zero, "after_shipments"))
    /\ orders_waiting' = [p \in {x \in DOMAIN orders_waiting : Rest(x) # <<>>} |-> Rest(p)]
    /\ pc' = "order"
    /\ UNCHANGED <<netvars, polvars, planvars, backlog_external>>
    /\ UNCHANGED <<t, topo, order_processing_delay, mode, received_today, orders_today>>
    /\ UNCHANGED <<demand_today, cleared_today, served_total, prev_on_hand, prev_served>>

\* phase 3 of the run in its own mode, appending to its own rows
Ship == ShipIn(mode, metrics, metrics')

HasParent(n) == parent_of(n) # <<>>

\* the t argument of the call policy.order_qty(...) in run(): none is passed
PolicyTime == <<>>

\* a variant of the policy call that reads the pipeline as it was before this period's
\* shipments were dispatched
PolicyQty_StalePipeline(n, free) ==
    IF node_cfg[n].policy.kind = "order_up_to"
    THEN LET today == SelectSeq(shipped_today, LAMBDA r : r.child = n /\ r.t = t)
         IN order_qty(node_cfg[n].policy, on_hand[n], backlog_external[n],
                      total_backlog_children(backlog_children[n]),
                      total_pipeline_in(pipeline_in[n]) - SumSeq([i \in 1 .. Len(today) |-> today[i].qty]),
                      PolicyTime)
    ELSE free[n]

\* q = policy.order_qty(...) of node n; free[n] is the value an arbitrary policy returns
PolicyQty(n, free) ==
    IF node_cfg[n].policy.kind = "order_up_to"
    THEN order_qty(node_cfg[n].policy, on_hand[n], backlog_external[n],
                   total_backlog_children(backlog_children[n]),
                   total_pipeline_in(pipeline_in[n]), PolicyTime)
    ELSE free[n]

\* orders_waiting.setdefault(parent_id, []).append((t + delay, nid, q)) for q > 0
RECURSIVE PlaceOrders(_, _, _)
PlaceOrders(seq, ow, q) ==
    IF seq = <<>> THEN ow
    ELSE LET n == Head(seq)
         IN IF HasParent(n) /\ q[n] > 0
            THEN LET p == parent_of(n)[1]
                 IN PlaceOrders(Tail(seq),
                                (p :> Append(Get(ow, p, <<>>), <<t + order_processing_delay, n, q[n]>>)) @@ ow,
                                q)
            ELSE PlaceOrders(Tail(seq), ow, q)

FreePolicyNodes == {n \in NodeSet : HasParent(n) /\ node_cfg[n].policy.kind = "any"}

\* the policy object of n has no method order_qty (BaseStockPolicy, SsPolicy and
\* AdaptivePolicy only have decide_order): policy.order_qty raises AttributeError
LacksOrderQty(n) == node_cfg[n].policy.kind \in {"base_stock", "ss", "adaptive"}

\* position in topo of the first node whose policy call raises, 0 if there is none
FirstRaising ==
    LET raising == {i \in 1 .. Len(topo) : HasParent(topo[i]) /\ LacksOrderQty(topo[i])}
    IN IF raising = {} THEN 0 ELSE CHOOSE i \in raising : \A j \in raising : i <= j

\* the nodes the ordering loop has dealt with when it ends or raises
OrderedNodes == IF FirstRaising = 0 THEN topo ELSE SubSeq(topo, 1, FirstRaising - 1)

\* 4) Place replenishment orders upstream
OrderIn(m, rows, rowsNext) ==
    /\ pc = "order"
    /\ LET ordered == OrderedNodes
           reached == Range(ordered)
       IN \E free \in [FreePolicyNodes -> Orders] :
            LET q == [n \in NodeSet |-> IF HasParent(n) /\ n \in reached
                                        THEN PolicyQty(n, free) ELSE 0]
            IN /\ orders_waiting' = PlaceOrders(ordered, orders_waiting, q)
               /\ orders_today' = q
               /\ rowsNext = rows \o Detailed(m, RowsFor(ordered, {n \in NodeSet : HasParent(n)}, t,
                                                          on_hand, backlog_external, backlog_children,
                                                          pipeline_in, Zero, q, "after_ordering"))
    /\ pc' = IF FirstRaising = 0 THEN "eod" ELSE "attribute_error"
    /\ UNCHANGED <<netvars, nodevars, obsvars, polvars, planvars>>
    /\ UNCHANGED <<t, topo, order_processing_delay, mode, received_today>>

\* phase 4 of the run in its own mode, appending to its own rows
Order == OrderIn(mode, metrics, metrics')

\* the assertion at the end of a period
NegativeStock == \E n \in NodeSet : ~IsInfinite(n) /\ on_hand[n] < 0

\* 5) EOD rows, the safety assertion and the step of the loop
EodIn(m, rows, rowsNext) ==
    /\ pc = "eod"
    /\ rowsNext = rows \o RowsFor(topo, NodeSet, t, on_hand, backlog_external, backlog_children,
                                     pipeline_in, received_today, orders_today, "EOD")
    /\ IF NegativeStock
       THEN pc' = "assert_failed" /\ t' = t
       ELSE t' = t + 1 /\ pc' = IF t + 1 < T THEN "arrivals" ELSE "done"
    /\ prev_on_hand' = on_hand
    /\ prev_served' = [n \in NodeSet |->
                         [fulfilled |-> IF n \in DOMAIN demand_today THEN demand_today[n].fulfilled ELSE 0,
                          cleared |-> cleared_today[n]]]
    /\ UNCHANGED <<netvars, nodevars, polvars, planvars>>
    /\ UNCHANGED <<topo, order_processing_delay, mode, orders_waiting, received_today, orders_today>>
    /\ UNCHANGED <<demand_today, cleared_today, shipped_today, served_total>>

\* phase 5 of the run in its own mode, appending to its own rows
Eod == EodIn(mode, metrics, metrics')

(***************************************************************************)
(* Specification of a run: the network is built by Network(nodes, edges),  *)
(* the Simulator is fresh (order_processing_delay = 1, summary mode)       *)
(***************************************************************************)
EdgeEntry(p, c) == [key |-> <<p, c>>, list |-> <<Edge(p, c)>>]

\* supplier A -> warehouse B -> retailer C
ChainEdges == <<EdgeEntry("A", "B"), EdgeEntry("B", "C")>>
ChainTypes == [n \in Ids |-> IF n = "A" THEN "supplier" ELSE IF n = "B" THEN "warehouse" ELSE "retailer"]

\* warehouse A -> retailers B and C
TreeEdges == <<EdgeEntry("A", "B"), EdgeEntry("A", "C")>>
TreeTypes == [n \in Ids |-> IF n = "A" THEN "warehouse" ELSE "retailer"]

Topologies == {[edges |-> ChainEdges, types |-> ChainTypes], [edges |-> TreeEdges, types |-> TreeTypes]}

ReviewPeriod == 2       \* R of the order-up-to policies of a run
TargetLevel == 2        \* S of the order-up-to policies of a run

\* a policy object whose order_qty may return any value of Orders
AnyPolicy == [kind |-> "any"]
OrderUpToPolicy(R, S, p) == [kind |-> "order_up_to", R |-> R, S |-> S, phase_offset |-> p]

\* node C orders by an arbitrary policy, the other nodes by order-up-to (R, S, 0)
RunPolicy(n) == IF n = "C" THEN AnyPolicy ELSE OrderUpToPolicy(ReviewPeriod, TargetLevel, 0)

\* node C starts empty, the other nodes with MaxInv units
InitialInventory(n) == IF n = "C" THEN 0 ELSE MaxInv

NoCall == [op |-> "none", parent |-> "", child |-> "", raised |-> FALSE]
NoArgs == [called |-> FALSE]

PolIdle ==
    /\ pol_args = NoArgs
    /\ pol_result = <<>>

\* no TransportPlanner.plan call is modelled
PlanIdle ==
    /\ plan_args = NoArgs
    /\ plan_result = <<>>

\* Node.__post_init__ and the field defaults, for every node of the registry
NodesFresh ==
    /\ on_hand = [n \in NodeSet |-> node_cfg[n].initial_inventory]
    /\ backlog_external = [n \in NodeSet |-> 0]
    /\ backlog_children = [n \in NodeSet |-> EmptyMap]
    /\ pipeline_in = [n \in NodeSet |-> <<>>]
    /\ inbound_orders_queue = [n \in NodeSet |-> <<>>]

\* a Simulator before run() is called; pc = "off" when no run is modelled
SimFresh(start, delay, m) ==
    /\ pc = start
    /\ t = 0
    /\ topo = <<>>
    /\ order_processing_delay = delay
    /\ mode = m
    /\ orders_waiting = EmptyMap
    /\ received_today = Zero
    /\ orders_today = Zero
    /\ metrics = <<>>
    /\ demand_today = EmptyMap
    /\ cleared_today = Zero
    /\ shipped_today = <<>>
    /\ served_total = 0
    /\ prev_on_hand = on_hand
    /\ prev_served = [n \in NodeSet |-> [fulfilled |-> 0, cleared |-> 0]]

Init ==
    /\ nodes = <<"A", "B", "C">>
    /\ \E top \in Topologies, inf \in BOOLEAN :
         /\ node_cfg = [n \in Ids |-> [node_type |-> top.types[n],
                                       infinite_supply |-> (n = "A" /\ inf),
                                       initial_inventory |-> InitialInventory(n),
                                       policy |-> RunPolicy(n)]]
         /\ edges = top.edges
         /\ parents_of = Built(top.edges).parents_of
         /\ children_of = Built(top.edges).children_of
    /\ net_status = "ok"
    /\ last_call = NoCall
    /\ NodesFresh
    /\ SimFresh("start", 1, "summary")
    /\ PolIdle
    /\ PlanIdle

Next ==
    \/ Start
    \/ Arrivals
    \/ BacklogClear
    \/ Demand
    \/ Ship
    \/ Order
    \/ Eod

Spec == Init /\ [][Next]_vars

(***************************************************************************)
(* Specification of network construction: Network(edges = es) for an edge  *)
(* dict es, then add_edge calls with arbitrary ids                         *)
(***************************************************************************)
MaxEdges == 3           \* Edge objects held by the edge dict in SpecNet

\* edge dicts handed to the constructor: empty, valid ones, and two with a child of two parents
InitialEdgeDicts ==
    {<<>>, ChainEdges, TreeEdges,
     <<EdgeEntry("A", "C"), EdgeEntry("B", "C")>>,
     <<EdgeEntry("A", "B"), EdgeEntry("B", "C"), EdgeEntry("A", "C")>>}

EdgeCount(es) == SumSeq([i \in 1 .. Len(es) |-> Len(es[i].list)])

InitNet ==
    /\ nodes = <<"A", "B", "C">>
    /\ node_cfg = [n \in Ids |-> [node_type |-> ChainTypes[n], infinite_supply |-> FALSE,
                                  initial_inventory |-> 0, policy |-> AnyPolicy]]
    /\ edges = <<>>
    /\ parents_of = EmptyMap
    /\ children_of = EmptyMap
    /\ net_status = "none"
    /\ last_call = NoCall
    /\ NodesFresh
    /\ SimFresh("off", 1, "summary")
    /\ PolIdle
    /\ PlanIdle

\* Network(edges = es): the dataclass constructor followed by __post_init__
Construct ==
    /\ net_status = "none"
    /\ \E es \in InitialEdgeDicts :
         LET r == Built(es)
         IN /\ last_call' = [op |-> "Network", parent |-> "", child |-> "", raised |-> ~r.ok]
            /\ IF r.ok
               THEN /\ net_status' = "ok"
                    /\ edges' = es
                    /\ parents_of' = r.parents_of
                    /\ children_of' = r.children_of
               ELSE /\ net_status' = "failed"
                    /\ UNCHANGED <<edges, parents_of, children_of>>
    /\ UNCHANGED <<nodes, node_cfg, nodevars, simvars, obsvars, polvars, planvars>>

\* net.add_edge(p, c) on a constructed network
AddEdge ==
    /\ net_status = "ok"
    /\ EdgeCount(edges) < MaxEdges
    /\ \E p \in Ids, c \in Ids :
         LET r == add_edge(edges, parents_of, children_of, p, c)
         IN /\ edges' = r.edges
            /\ parents_of' = r.parents_of
            /\ children_of' = r.children_of
            /\ last_call' = [op |-> "add_edge", parent |-> p, child |-> c, raised |-> r.raised]
    /\ UNCHANGED <<nodes, node_cfg, net_status, nodevars, simvars, obsvars, polvars, planvars>>

NextNet ==
    \/ Construct
    \/ AddEdge

SpecNet == InitNet /\ [][NextNet]_vars

(***************************************************************************)
(* Specification of single calls of OrderUpToPolicy.order_qty with a       *)
(* period t, on a policy (R, S, phase_offset)                              *)
(***************************************************************************)
MaxR == 3               \* review periods 1 .. MaxR
MaxS == 3               \* targets 0 .. MaxS
MaxOffset == 3          \* phase offsets 0 .. MaxOffset
MaxPeriod == 4          \* periods 0 .. MaxPeriod
MaxStock == 2           \* on_hand 0 .. MaxStock
MaxBacklog == 1         \* each backlog argument 0 .. MaxBacklog
MaxPipe == 2            \* pipeline_in 0 .. MaxPipe

PolicyInputs ==
    [R : 1 .. MaxR, S : 0 .. MaxS, phase_offset : 0 .. MaxOffset, t : 0 .. MaxPeriod,
     on_hand : 0 .. MaxStock, backlog_external : 0 .. MaxBacklog,
     backlog_children : 0 .. MaxBacklog, pipeline_in : 0 .. MaxPipe, called : {FALSE}]

InitPol ==
    /\ nodes = <<"A", "B", "C">>
    /\ node_cfg = [n \in Ids |-> [node_type |-> ChainTypes[n], infinite_supply |-> FALSE,
                                  initial_inventory |-> 0, policy |-> AnyPolicy]]
    /\ edges = <<>>
    /\ parents_of = EmptyMap
    /\ children_of = EmptyMap
    /\ net_status = "none"
    /\ last_call = NoCall
    /\ NodesFresh
    /\ SimFresh("off", 1, "summary")
    /\ pol_args \in PolicyInputs
    /\ pol_result = <<>>
    /\ PlanIdle

\* policy.order_qty(on_hand=..., backlog_external=..., backlog_children=..., pipeline_in=..., t=t)
PolicyCall ==
    /\ ~pol_args.called
    /\ pol_result' = <<order_qty(OrderUpToPolicy(pol_args.R, pol_args.S, pol_args.phase_offset),
                                 pol_args.on_hand, pol_args.backlog_external,
                                 pol_args.backlog_children, pol_args.pipeline_in, <<pol_args.t>>)>>
    /\ pol_args' = [pol_args EXCEPT !.called = TRUE]
    /\ UNCHANGED <<netvars, nodevars, simvars, obsvars, planvars>>

NextPol == PolicyCall

SpecPol == InitPol /\ [][NextPol]_vars

(***************************************************************************)
(* Properties of a run (checked under Spec)                                *)
(***************************************************************************)
NoInfiniteSupply == \A n \in NodeSet : ~IsInfinite(n)
TotalOnHand == SumFn([n \in NodeSet |-> on_hand[n]])
TotalPipeline == SumFn([n \in NodeSet |-> total_pipeline_in(pipeline_in[n])])
TotalInitial == SumFn([n \in NodeSet |-> node_cfg[n].initial_inventory])
PipelineEntries(n) == Range(pipeline_in[n])

\* C1: unit conservation. In a network without an infinite_supply node (pipelines start
\* empty), in every state of the run the units on hand plus the units in all pipelines
\* equal the initial units on hand minus the units handed to external customers so far.
C1_UnitConservation ==
    NoInfiniteSupply => TotalOnHand + TotalPipeline = TotalInitial - served_total

\* C1 witness: the end of the last period of a run without infinite supply in which
\* units are in transit, units arrived today and customers have been served.
C1_Witness ==
    /\ NoInfiniteSupply
    /\ pc = "eod"
    /\ t = T - 1
    /\ TotalPipeline > 0
    /\ served_total > 0
    /\ \E n \in NodeSet : received_today[n] > 0

\* C2: every node without infinite supply has on_hand >= 0 in every state of the run
\* (initial inventories are >= 0), and the end-of-period assertion never fails.
C2_NoNegativeOnHand ==
    /\ \A n \in NodeSet : ~IsInfinite(n) => on_hand[n] >= 0
    /\ pc # "assert_failed"

\* C2 witness: a parent without infinite supply has shipped its last unit and still owes
\* units to a child, while a retailer is out of stock with customers waiting.
C2_Witness ==
    /\ pc = "order"
    /\ \E p \in NodeSet : /\ ~IsInfinite(p)
                          /\ on_hand[p] = 0
                          /\ total_backlog_children(backlog_children[p]) > 0
                          /\ \E r \in Range(shipped_today) : r.parent = p
    /\ \E n \in NodeSet : IsRetailer(n) /\ on_hand[n] = 0 /\ backlog_external[n] > 0

\* C3: in every state, for every node, backlog_external >= 0, every stored child backlog
\* is >= 0 and every shipment in a pipeline has qty > 0.
C3_NonNegativeBacklogAndPipeline ==
    \A n \in NodeSet :
        /\ backlog_external[n] >= 0
        /\ \A c \in DOMAIN backlog_children[n] : backlog_children[n][c] >= 0
        /\ \A s \in PipelineEntries(n) : s.qty > 0

\* C3 witness: a retailer clears part of its backlog on arrival of a shipment while a
\* parent holds a child backlog and a shipment is in transit.
C3_Witness ==
    /\ pc = "demand"
    /\ \E n \in NodeSet : cleared_today[n] > 0
    /\ \E p \in NodeSet : DOMAIN backlog_children[p] # {}
    /\ \E n \in NodeSet : pipeline_in[n] # <<>>

Retailers == {n \in NodeSet : IsRetailer(n)}
NegativeDemand(n) == n \in DOMAIN demand_today /\ demand_today[n].demand < 0

\* C4, the call: a negative quantity gives the result of quantity 0 on the node's state
C4_CallAsZero ==
    \A n \in Retailers : \A d \in {x \in Demands : x < 0} :
        process_external_demand(on_hand[n], backlog_external[n], d)
            = process_external_demand(on_hand[n], backlog_external[n], 0)

\* C4, the demand phase: a retailer whose sample is negative gets (0, 0) back and keeps
\* its on_hand and backlog_external
C4_DemandStep ==
    pc = "demand" =>
        \A n \in Retailers : NegativeDemand(n)' =>
            /\ demand_today'[n].fulfilled = 0
            /\ demand_today'[n].unfilled = 0
            /\ on_hand'[n] = on_hand[n]
            /\ backlog_external'[n] = backlog_external[n]

\* C4, the period: with a negative sample and no arrivals the retailer ends the period
\* with the on_hand of the previous period's end
C4_Period ==
    pc = "eod" =>
        \A n \in Retailers : (NegativeDemand(n) /\ received_today[n] = 0) => on_hand[n] = prev_on_hand[n]

\* C4: demand clipping. process_external_demand with a negative quantity behaves as with
\* quantity 0: it returns (0, 0) and leaves on_hand and backlog_external unchanged; in a
\* run, a period with a negative demand sample and no arrivals leaves the retailer's
\* on_hand unchanged.
C4_DemandClipping == [](C4_CallAsZero /\ C4_Period) /\ [][C4_DemandStep]_vars

\* C4 witness: the end of a period in which a retailer holding stock sampled a negative
\* demand and received nothing.
C4_Witness ==
    /\ pc = "eod"
    /\ \E n \in Retailers : NegativeDemand(n) /\ received_today[n] = 0 /\ on_hand[n] > 0

\* the pipeline entry an on_ship notification r stands for, by the claimed arrival rule
ClaimedEntry(r) == Shipment(r.t + (IF r.L > 1 THEN r.L ELSE 1), r.qty)

\* C5, dispatch: every shipment of the latest fulfilment phase has
\* arrival_time = t + max(1, L) >= t + 1 and sits in the child's pipeline until the
\* arrivals phase of that period
C5_Dispatched ==
    \A r \in Range(shipped_today) :
        LET e == ClaimedEntry(r)
        IN /\ e.arrival_time >= r.t + 1
           /\ (e.arrival_time > t \/ (e.arrival_time = t /\ pc = "arrivals"))
                  => e \in PipelineEntries(r.child)

\* C5, no entry left behind: no pipeline entry has an arrival_time before the current
\* period, and once the arrivals phase has run none has the current period either
C5_NoStaleEntry ==
    \A n \in NodeSet : \A s \in PipelineEntries(n) :
        /\ s.arrival_time >= t
        /\ pc \in {"backlog_clear", "demand", "ship", "order", "eod"} => s.arrival_time > t

\* C5, the steps: on_hand grows only in the arrivals phase, there by exactly the
\* quantities of the entries due in that period, which leave the pipeline
C5_Steps ==
    \A n \in NodeSet :
        /\ on_hand'[n] > on_hand[n] => pc = "arrivals"
        /\ pc = "arrivals" =>
              LET due == SelectSeq(pipeline_in[n], LAMBDA s : s.arrival_time = t)
              IN /\ on_hand'[n] = on_hand[n] + total_pipeline_in(due)
                 /\ received_today'[n] = total_pipeline_in(due)
                 /\ Len(pipeline_in'[n]) = Len(pipeline_in[n]) - Len(due)
                 /\ \A s \in Range(pipeline_in'[n]) : s.arrival_time # t

\* C5: no same-period arrival loss. A shipment dispatched in period t with lead time L
\* (also L <= 0) enters the child's pipeline with arrival_time = t + max(1, L) >= t + 1,
\* is not added to on_hand in period t, and is added to on_hand exactly once, in the
\* arrivals phase of period arrival_time, and then removed; no entry stays behind with an
\* arrival_time earlier than the current period.
C5_NoSamePeriodArrivalLoss == [](C5_Dispatched /\ C5_NoStaleEntry) /\ [][C5_Steps]_vars

\* C5 witness: a shipment dispatched with a lead time <= 0 in the previous period has
\* just been received by its child and has left the pipeline.
C5_Witness ==
    /\ pc = "backlog_clear"
    /\ \E r \in Range(shipped_today) :
          /\ r.L <= 0
          /\ r.t = t - 1
          /\ received_today[r.child] >= r.qty
          /\ \A e \in PipelineEntries(r.child) : e.arrival_time > t

PeriodicNodes ==
    {n \in NodeSet : HasParent(n) /\ node_cfg[n].policy.kind = "order_up_to"
                     /\ node_cfg[n].policy.phase_offset = 0}

\* the orders of node n waiting at its parent that were placed in period tt
PlacedIn(n, tt) ==
    LET lst == Get(orders_waiting, parent_of(n)[1], <<>>)
    IN {i \in 1 .. Len(lst) : lst[i][2] = n /\ lst[i][1] = tt + order_processing_delay}

\* C8: periodic-review gating in a run. A node with an order-up-to policy of review
\* period R and phase_offset 0 has orders_to_parent = 0 in the EOD row of every period t
\* with t mod R # 0, and no order of it is scheduled at its parent in such a period.
C8_PeriodicReviewGating ==
    /\ \A i \in 1 .. Len(metrics) :
          (/\ metrics[i].phase = "EOD"
           /\ metrics[i].node_id \in PeriodicNodes
           /\ metrics[i].t % node_cfg[metrics[i].node_id].policy.R # 0)
              => metrics[i].orders_to_parent = 0
    /\ pc = "eod" =>
          \A n \in PeriodicNodes : t % node_cfg[n].policy.R # 0 => PlacedIn(n, t) = {}

LeafRetailers == {n \in Retailers : children(n) = <<>>}

\* units handed to external customers by node n in this period
ServedToday(n) ==
    cleared_today[n] + (IF n \in DOMAIN demand_today THEN demand_today[n].fulfilled ELSE 0)

C6_RejectedAddEdgeChangesNothing ==
    [][(last_call'.op = "add_edge" /\ last_call'.raised)
          => (edges' = edges /\ parents_of' = parents_of /\ children_of' = children_of)]_vars

\* C7: single-sourcing. After construction and after any sequence of add_edge calls,
\* failed or not, every child of a key of the edge map has one parent over all keys, and
\* that parent is parents_of[child].
C7_SingleSourcing ==
    net_status = "ok" =>
        \A k \in EdgeKeys(edges) : k[2] \in DOMAIN parents_of /\ parents_of[k[2]] = k[1]

(***************************************************************************)
(* Properties of OrderUpToPolicy.order_qty (checked under SpecPol)         *)
(***************************************************************************)
MaxMultiple == 8        \* multiples k * R with |k| <= MaxMultiple cover every t - phase_offset

\* t - p is a multiple of R
OnReview(R, p, tt) == \E k \in (-MaxMultiple) .. MaxMultiple : tt - p = k * R

\* C9: the periodic-review policy function. order_qty with period t returns 0 when
\* (t - p) mod R # 0 and max(0, S - ip) when (t - p) mod R = 0, with
\* ip = on_hand - (backlog_external + backlog_children) + pipeline_in, also for t < p.
C9_PeriodicReviewFunction ==
    pol_args.called =>
        LET a == pol_args
            ip == a.on_hand - a.backlog_external - a.backlog_children + a.pipeline_in
        IN pol_result[1] = IF OnReview(a.R, a.phase_offset, a.t)
                           THEN (IF a.S - ip > 0 THEN a.S - ip ELSE 0)
                           ELSE 0

\* C9 witness: a call in a period before the phase offset that falls on a review and
\* orders a positive quantity.
C9_Witness ==
    /\ pol_args.called
    /\ pol_args.t < pol_args.phase_offset
    /\ pol_args.R > 1
    /\ OnReview(pol_args.R, pol_args.phase_offset, pol_args.t)
    /\ pol_result[1] > 0

(***************************************************************************)
(* Specification of runs over other configurations: any                    *)
(* order_processing_delay in 0 .. MaxDelay on the chain without infinite   *)
(* supply, and networks whose edges hold a cycle                           *)
(***************************************************************************)
MaxDelay == 2           \* order_processing_delay 0 .. MaxDelay

\* A -> B -> A with C apart, and the self-loop A -> A with A -> B
CyclicEdgeDicts ==
    {<<EdgeEntry("A", "B"), EdgeEntry("B", "A")>>,
     <<EdgeEntry("A", "A"), EdgeEntry("A", "B")>>,
     <<EdgeEntry("A", "B"), EdgeEntry("B", "C"), EdgeEntry("C", "A")>>}

InitCfg ==
    /\ nodes = <<"A", "B", "C">>
    /\ node_cfg = [n \in Ids |-> [node_type |-> ChainTypes[n],
                                  infinite_supply |-> FALSE,
                                  initial_inventory |-> InitialInventory(n),
                                  policy |-> RunPolicy(n)]]
    /\ \E es \in {ChainEdges} \cup CyclicEdgeDicts :
         /\ Built(es).ok
         /\ edges = es
         /\ parents_of = Built(es).parents_of
         /\ children_of = Built(es).children_of
    /\ net_status = "ok"
    /\ last_call = NoCall
    /\ NodesFresh
    /\ \E d \in 0 .. MaxDelay : SimFresh("start", d, "summary")
    /\ PolIdle
    /\ PlanIdle

SpecCfg == InitCfg /\ [][Next]_vars

(***************************************************************************)
(* Properties of runs with any order_processing_delay (checked under       *)
(* SpecCfg)                                                                *)
(***************************************************************************)
Waiting(p) == Get(orders_waiting, p, <<>>)

\* units of the orders of child c that parent p hands to process_child_orders in period t
DueQty(p, c) ==
    LET due == SelectSeq(Waiting(p), LAMBDA o : o[1] = t /\ o[2] = c)
    IN SumSeq([i \in 1 .. Len(due) |-> due[i][3]])

\* units the notifications in log dispatch from p to c
LoggedQty(log, p, c) ==
    LET hit == SelectSeq(log, LAMBDA r : r.parent = p /\ r.child = c)
    IN SumSeq([i \in 1 .. Len(hit) |-> hit[i].qty])

\* C11, nothing waits past its period: a waiting order has a process time >= t, and one
\* with process time t < T is still before this period's fulfilment phase
C11_NoneLeftWaiting ==
    \A p \in DOMAIN orders_waiting : \A o \in Range(orders_waiting[p]) :
        /\ o[1] >= t
        /\ (o[1] = t /\ t < T) => pc \in {"arrivals", "backlog_clear", "demand", "ship"}

\* C11, the steps: the ordering phase of period t appends orders with process time
\* t + order_processing_delay and qty > 0; the fulfilment phase of period t removes exactly
\* the orders with process time t and hands their units to the parent (they are shipped or
\* kept as the child's backlog); no other step removes or adds an order
C11_Steps ==
    \A p \in Ids :
        LET before == Waiting(p)
            after == Get(orders_waiting', p, <<>>)
        IN IF pc = "ship"
           THEN /\ after = SelectSeq(before, LAMBDA o : o[1] # t)
                /\ \A c \in Ids :
                      DueQty(p, c) > 0 =>
                          LoggedQty(shipped_today', p, c) + Get(backlog_children'[p], c, 0)
                              = Get(backlog_children[p], c, 0) + DueQty(p, c)
           ELSE /\ Len(after) >= Len(before)
                /\ SubSeq(after, 1, Len(before)) = before
                /\ \A i \in (Len(before) + 1) .. Len(after) :
                      /\ pc = "order"
                      /\ after[i][1] = t + order_processing_delay
                      /\ after[i][3] > 0

\* C11: order release timing. For every order_processing_delay d >= 0, a positive order
\* placed in the ordering phase of period t with t + d < T is handed to its parent's
\* process_child_orders exactly once, in the fulfilment phase of period t + d and in no
\* other period; no order stays waiting forever and none is processed twice.
C11_OrderReleaseTiming == [](C11_NoneLeftWaiting) /\ [][C11_Steps]_vars

\* the delays >= 1: what C11 states holds for them
C11_PositiveDelay ==
    [](order_processing_delay >= 1 => C11_NoneLeftWaiting) /\ [][C11_Steps]_vars

Successors(n) == {k[2] : k \in {e \in EdgeKeys(edges) : e[1] = n}}

\* the nodes reached from the set S by at most k more edges
RECURSIVE ReachFrom(_, _)
ReachFrom(S, k) ==
    IF k = 0 THEN S ELSE ReachFrom(S \cup UNION {Successors(m) : m \in S}, k - 1)

\* the edges hold a cycle (a self-loop included)
HasCycle == \E n \in NodeSet : n \in ReachFrom(Successors(n), Cardinality(NodeSet))

\* C14: non-DAG rejection before the run. When the edges hold a cycle, run() raises
\* before period 0: the run never enters a phase, and when the error is raised no node's
\* on_hand, backlog, pipeline or order queue has changed and no MetricsRow is appended.
C14_NonDagRejectedBeforeRun ==
    HasCycle =>
        /\ pc \in {"start", "error"}
        /\ NodesFresh
        /\ metrics = <<>>
        /\ orders_waiting = EmptyMap
        /\ t = 0

\* C14 witness: run() has raised on a network whose edges hold a cycle.
C14_Witness ==
    /\ HasCycle
    /\ pc = "error"

(***************************************************************************)
(* Properties of the phases of a period (checked under Spec)               *)
(***************************************************************************)
\* C12, phase 1a: a retailer with on_hand H > 0 and backlog B > 0 after the arrivals
\* serves min(H, B) units of backlog, every other node serves none, and no demand has
\* been sampled yet
C12_ClearStep ==
    pc = "backlog_clear" =>
        /\ demand_today = EmptyMap
        /\ demand_today' = EmptyMap
        /\ \A n \in NodeSet :
              LET H == on_hand[n]
                  B == backlog_external[n]
                  served == IF IsRetailer(n) /\ H > 0 /\ B > 0
                            THEN (IF H <= B THEN H ELSE B)
                            ELSE 0
              IN /\ cleared_today'[n] = served
                 /\ on_hand'[n] = H - served
                 /\ backlog_external'[n] = B - served

\* C12, before the demand: a retailer that still holds units owes no backlog
C12_BacklogFirst ==
    pc = "demand" => \A n \in Retailers : on_hand[n] > 0 => backlog_external[n] = 0

\* C12, the demand phase: units go to new demand only at a retailer without backlog
C12_DemandStep ==
    pc = "demand" =>
        \A n \in Retailers : demand_today'[n].fulfilled > 0 => backlog_external[n] = 0

\* C12: backlog priority. In every period a retailer with on_hand H > 0 and
\* backlog_external B > 0 after the arrivals phase serves exactly min(H, B) units of
\* backlog before the period's demand is sampled; units are used for the new demand only
\* when the earlier backlog is down to 0.
C12_BacklogPriority == [](C12_BacklogFirst) /\ [][C12_ClearStep /\ C12_DemandStep]_vars

\* C12 witness: new demand has been served from the units left after a retailer cleared
\* its whole backlog in this period.
C12_Witness ==
    /\ pc = "ship"
    /\ \E n \in Retailers : cleared_today[n] > 0 /\ demand_today[n].fulfilled > 0

PhaseSteps ==
    {<<"start", "arrivals">>, <<"start", "error">>, <<"start", "done">>,
     <<"arrivals", "backlog_clear">>, <<"backlog_clear", "demand">>, <<"demand", "ship">>,
     <<"ship", "order">>, <<"order", "eod">>,
     <<"eod", "arrivals">>, <<"eod", "done">>, <<"eod", "assert_failed">>}

\* C13, the order of the phases: every step is one whole phase for all nodes, the phases
\* follow each other in the fixed order, and the period changes only after the EOD rows
C13_PhaseOrder ==
    /\ <<pc, pc'>> \in PhaseSteps
    /\ t' # t => (pc = "eod" /\ t' = t + 1)

\* C13, what each phase touches: stock arrives only in phase 1, external backlog falls
\* only in phase 1a and grows only in phase 2, pipelines and child backlogs grow only in
\* phase 3, and orders are placed only in phase 4, where no node field changes
C13_PhaseEffects ==
    /\ \A n \in NodeSet :
          /\ on_hand'[n] > on_hand[n] => pc = "arrivals"
          /\ backlog_external'[n] < backlog_external[n] => pc = "backlog_clear"
          /\ backlog_external'[n] > backlog_external[n] => pc = "demand"
          /\ Len(pipeline_in'[n]) > Len(pipeline_in[n]) => pc = "ship"
          /\ backlog_children'[n] # backlog_children[n] => pc = "ship"
    /\ orders_waiting' # orders_waiting => pc \in {"start", "ship", "order"}
    /\ pc = "ship" => \A p \in Ids : Len(Get(orders_waiting', p, <<>>)) <= Len(Get(orders_waiting, p, <<>>))
    /\ pc = "order" => UNCHANGED nodevars

\* C13, the ordering phase of period t: every shipment dispatched in period t is in its
\* child's pipeline, and an order-up-to node orders on the pipeline that holds it
C13_OrderStep ==
    pc = "order" =>
        /\ \A r \in Range(shipped_today) :
              r.t = t /\ Shipment(r.t + (IF r.L > 1 THEN r.L ELSE 1), r.qty) \in Range(pipeline_in[r.child])
        /\ \A n \in NodeSet :
              (HasParent(n) /\ node_cfg[n].policy.kind = "order_up_to") =>
                  LET ip == on_hand[n] - backlog_external[n]
                              - total_backlog_children(backlog_children[n])
                              + total_pipeline_in(pipeline_in[n])
                      S == node_cfg[n].policy.S
                  IN orders_today'[n] = IF S - ip > 0 THEN S - ip ELSE 0

\* C13: phase barrier. Within each period all nodes complete arrivals before any backlog
\* is cleared, all backlog clearing precedes any demand, all demand precedes any
\* processing of due child orders, and all fulfilment precedes any replenishment order;
\* an order placed in the ordering phase of period t is not seen by a fulfilment phase of
\* period t, and a shipment dispatched to a node in period t is counted in that node's
\* pipeline_in when its policy is evaluated in period t.
C13_PhaseBarrier == [][C13_PhaseOrder /\ C13_PhaseEffects /\ C13_OrderStep]_vars

\* C13 witness: the end of a period in which an order-up-to node was sent a shipment and
\* then placed an order smaller than its target, the shipment being counted.
C13_Witness ==
    /\ pc = "eod"
    /\ \E r \in Range(shipped_today) :
          /\ r.t = t
          /\ node_cfg[r.child].policy.kind = "order_up_to"
          /\ orders_today[r.child] > 0
          /\ orders_today[r.child] < node_cfg[r.child].policy.S + backlog_external[r.child]
                                       + total_backlog_children(backlog_children[r.child])
                                       - on_hand[r.child]

(***************************************************************************)
(* engine/transport.py. Volumes, capacities and costs are integer-valued   *)
(* floats, on which the float comparisons, subtractions and the division   *)
(* remaining / C compare as the exact values do; a utilization is held in  *)
(* hundredths (1.0 as 100, 0.5 as 50, 0.25 as 25)                          *)
(***************************************************************************)
MinUtil == 25           \* TransportPlanner.MIN_UTIL = 0.25, in hundredths
FullUtil == 100         \* the bucket 1.0, in hundredths
HalfUtil == 50          \* the bucket 0.5, in hundredths
QuarterUtil == 25       \* the bucket 0.25, in hundredths

TransportOption(route_id, m, capacity, cost_full, cost_half, cost_quarter, lead_time) ==
    [route_id |-> route_id, mode |-> m, capacity |-> capacity, cost_full |-> cost_full,
     cost_half |-> cost_half, cost_quarter |-> cost_quarter, lead_time |-> lead_time]

PlannedShipment(qty, m, cost, lead_time, utilization) ==
    [qty |-> qty, mode |-> m, cost |-> cost, lead_time |-> lead_time, utilization |-> utilization]

\* the outcomes of a planner call
Raised == [raised |-> TRUE, shipments |-> <<>>]
Returned(shipments) == [raised |-> FALSE, shipments |-> shipments]

\* if C <= 0: raise RuntimeError
InvalidCapacity(C) == C <= 0

\* a variant of the minimum test that also defers a volume of exactly a quarter load
BelowMinimum_Inclusive(V, C) == 100 * V <= MinUtil * C

\* if requested_volume < self.MIN_UTIL * C: return []
BelowMinimum(V, C) == 100 * V < MinUtil * C

\* the loop `while remaining >= C`: the shipments appended and the volume left
RECURSIVE FullVehicles(_, _, _)
FullVehicles(remaining, opt, shipments) ==
    IF remaining >= opt.capacity
    THEN FullVehicles(remaining - opt.capacity, opt,
                      Append(shipments, PlannedShipment(opt.capacity, opt.mode, opt.cost_full,
                                                        opt.lead_time, FullUtil)))
    ELSE [remaining |-> remaining, shipments |-> shipments]

\* a variant of the tiers that charges a quarter load as a half load
PartialVehicle_NoQuarterTier(remaining, opt) ==
    IF remaining <= 0 THEN <<>>
    ELSE IF 100 * remaining >= FullUtil * opt.capacity
    THEN <<PlannedShipment(remaining, opt.mode, opt.cost_full, opt.lead_time, FullUtil)>>
    ELSE IF 100 * remaining >= QuarterUtil * opt.capacity
    THEN <<PlannedShipment(remaining, opt.mode, opt.cost_half, opt.lead_time, HalfUtil)>>
    ELSE <<>>

\* the partial vehicle: util = remaining / C in the tiers 1.0, 0.5, 0.25, or no shipment
PartialVehicle(remaining, opt) ==
    IF remaining <= 0 THEN <<>>
    ELSE IF 100 * remaining >= FullUtil * opt.capacity
    THEN <<PlannedShipment(remaining, opt.mode, opt.cost_full, opt.lead_time, FullUtil)>>
    ELSE IF 100 * remaining >= HalfUtil * opt.capacity
    THEN <<PlannedShipment(remaining, opt.mode, opt.cost_half, opt.lead_time, HalfUtil)>>
    ELSE IF 100 * remaining >= QuarterUtil * opt.capacity
    THEN <<PlannedShipment(remaining, opt.mode, opt.cost_quarter, opt.lead_time, QuarterUtil)>>
    ELSE <<>>

\* a variant of _plan_single_option that treats capacity <= 0 as an unusable option
plan_single_option_SkipInvalid(V, opt) ==
    IF InvalidCapacity(opt.capacity) THEN Returned(<<>>)
    ELSE IF BelowMinimum(V, opt.capacity) THEN Returned(<<>>)
    ELSE LET full == FullVehicles(V, opt, <<>>)
         IN Returned(full.shipments \o PartialVehicle(full.remaining, opt))

\* TransportPlanner._plan_single_option
plan_single_option(V, opt) ==
    IF InvalidCapacity(opt.capacity) THEN Raised
    ELSE IF BelowMinimum(V, opt.capacity) THEN Returned(<<>>)
    ELSE LET full == FullVehicles(V, opt, <<>>)
         IN Returned(full.shipments \o PartialVehicle(full.remaining, opt))

\* opt put behind the options of sorted whose mode is not larger
RECURSIVE InsertByMode(_, _)
InsertByMode(sorted, opt) ==
    IF sorted = <<>> THEN <<opt>>
    ELSE IF Head(sorted).mode <= opt.mode
    THEN <<Head(sorted)>> \o InsertByMode(Tail(sorted), opt)
    ELSE <<opt>> \o sorted

RECURSIVE SortFrom(_, _)
SortFrom(options, sorted) ==
    IF options = <<>> THEN sorted
    ELSE SortFrom(Tail(options), InsertByMode(sorted, Head(options)))

\* a variant that takes the options in the order they were passed in
SortedByMode_InputOrder(options) == options

\* sorted(options, key=lambda x: x.mode): stable, ascending mode
SortedByMode(options) == SortFrom(options, <<>>)

\* the loop `for opt in options` of plan: the first non-empty result, or the raise
RECURSIVE FirstPlan(_, _)
FirstPlan(V, options) ==
    IF options = <<>> THEN Returned(<<>>)
    ELSE LET r == plan_single_option(V, Head(options))
         IN IF r.raised \/ r.shipments # <<>> THEN r
            ELSE FirstPlan(V, Tail(options))

\* TransportPlanner.plan
plan(V, options) ==
    IF V <= 0 THEN Returned(<<>>)
    ELSE FirstPlan(V, SortedByMode(options))

(***************************************************************************)
(* Specification of single calls of TransportPlanner.plan on a volume and  *)
(* a list of options                                                       *)
(***************************************************************************)
MaxVolume == 13         \* requested volumes -1 .. MaxVolume
MaxOptions == 2         \* options per call 0 .. MaxOptions
MaxMode == 2            \* modes 1 .. MaxMode
SmallCapacity == 5      \* a capacity that a volume of 1 does not fill to a quarter
LargeCapacity == 8      \* a capacity whose quarter and half loads are whole units

Capacities == {-1, 0, SmallCapacity, LargeCapacity}

\* (cost_full, cost_half, cost_quarter): the defaults of add_edge and a cheaper tariff
Tariffs == {<<100, 60, 35>>, <<40, 30, 20>>}

\* the options a call may get as its i-th argument
OptionsAt(i) ==
    {TransportOption(i, m, C, c[1], c[2], c[3], 1) : m \in 1 .. MaxMode, C \in Capacities, c \in Tariffs}

OptionLists ==
    UNION {{s \in [1 .. n -> UNION {OptionsAt(i) : i \in 1 .. n}] : \A i \in 1 .. n : s[i] \in OptionsAt(i)}
           : n \in 0 .. MaxOptions}

InitPlan ==
    /\ nodes = <<"A", "B", "C">>
    /\ node_cfg = [n \in Ids |-> [node_type |-> ChainTypes[n], infinite_supply |-> FALSE,
                                  initial_inventory |-> 0, policy |-> AnyPolicy]]
    /\ edges = <<>>
    /\ parents_of = EmptyMap
    /\ children_of = EmptyMap
    /\ net_status = "none"
    /\ last_call = NoCall
    /\ NodesFresh
    /\ SimFresh("off", 1, "summary")
    /\ PolIdle
    /\ \E V \in (-1) .. MaxVolume, options \in OptionLists :
         plan_args = [called |-> FALSE, requested_volume |-> V, options |-> options]
    /\ plan_result = <<>>

\* planner.plan(requested_volume, options)
PlanCall ==
    /\ "options" \in DOMAIN plan_args
    /\ ~plan_args.called
    /\ plan_result' = plan(plan_args.requested_volume, plan_args.options)
    /\ plan_args' = [plan_args EXCEPT !.called = TRUE]
    /\ UNCHANGED <<netvars, nodevars, simvars, obsvars, polvars>>

NextPlan == PlanCall

SpecPlan == InitPlan /\ [][NextPlan]_vars

(***************************************************************************)
(* Properties of TransportPlanner.plan (checked under SpecPlan)            *)
(***************************************************************************)
Planned == "options" \in DOMAIN plan_args /\ plan_args.called
PlanShipments == plan_result.shipments
PlannedTotal == SumSeq([i \in 1 .. Len(PlanShipments) |-> PlanShipments[i].qty])

\* option j is tried before option i: a smaller mode, or the same mode and passed in earlier
TriedBefore(j, i) ==
    LET o == plan_args.options
    IN o[j].mode < o[i].mode \/ (o[j].mode = o[i].mode /\ j < i)

\* four times the volume reaches the capacity: requested_volume >= 0.25 * capacity
QuarterLoad(V, C) == 4 * V >= C

\* C15: transport load decomposition. For one option with capacity C > 0 and volume
\* V >= 0.25 * C, plan returns floor(V / C) shipments of quantity C at cost_full with
\* utilization 1.0, then for the remainder r one shipment of quantity r at cost_half and
\* bucket 0.5 if r >= 0.5 * C, at cost_quarter and bucket 0.25 if 0.25 * C <= r < 0.5 * C,
\* and none if r < 0.25 * C; the planned total is at most V and less than 0.25 * C of V
\* stays unplanned.
C15_LoadDecomposition ==
    (/\ Planned
     /\ Len(plan_args.options) = 1
     /\ plan_args.options[1].capacity > 0
     /\ QuarterLoad(plan_args.requested_volume, plan_args.options[1].capacity)) =>
        LET V == plan_args.requested_volume
            o == plan_args.options[1]
            C == o.capacity
            n == V \div C
            r == V - n * C
            sh == PlanShipments
            tail == IF 2 * r >= C THEN <<[qty |-> r, cost |-> o.cost_half, utilization |-> 50]>>
                    ELSE IF 4 * r >= C THEN <<[qty |-> r, cost |-> o.cost_quarter, utilization |-> 25]>>
                    ELSE <<>>
        IN /\ ~plan_result.raised
           /\ Len(sh) = n + Len(tail)
           /\ \A i \in 1 .. n :
                 sh[i].qty = C /\ sh[i].cost = o.cost_full /\ sh[i].utilization = 100
           /\ \A i \in 1 .. Len(tail) :
                 /\ sh[n + i].qty = tail[i].qty
                 /\ sh[n + i].cost = tail[i].cost
                 /\ sh[n + i].utilization = tail[i].utilization
           /\ \A i \in 1 .. Len(sh) : sh[i].mode = o.mode /\ sh[i].lead_time = o.lead_time
           /\ PlannedTotal <= V
           /\ 4 * (V - PlannedTotal) < C

\* C15 witness: V = 2.6 * C on one option gave two full shipments and one half-tier one.
C15_Witness ==
    /\ Planned
    /\ Len(plan_args.options) = 1
    /\ 10 * plan_args.requested_volume = 26 * plan_args.options[1].capacity
    /\ Len(PlanShipments) = 3
    /\ PlanShipments[3].utilization = 50

\* C16: deferred shipment outcome. For options that all have capacity > 0, plan returns
\* an empty plan without raising if and only if requested_volume <= 0 or
\* requested_volume < 0.25 * capacity for every option; when some option has
\* requested_volume >= 0.25 * capacity the plan is not empty.
C16_DeferredOutcome ==
    (Planned /\ \A i \in DOMAIN plan_args.options : plan_args.options[i].capacity > 0) =>
        /\ ~plan_result.raised
        /\ PlanShipments = <<>>
              <=> \/ plan_args.requested_volume <= 0
                  \/ \A i \in DOMAIN plan_args.options :
                        ~QuarterLoad(plan_args.requested_volume, plan_args.options[i].capacity)

\* C16 witness: a positive volume below a quarter load of each of two options was deferred.
C16_Witness ==
    /\ Planned
    /\ plan_args.requested_volume > 0
    /\ Len(plan_args.options) = 2
    /\ plan_args.options[1].capacity # plan_args.options[2].capacity
    /\ \A i \in DOMAIN plan_args.options : plan_args.options[i].capacity > 0
    /\ PlanShipments = <<>>
    /\ ~plan_result.raised

\* the lists with the options of the call in another order
Reorderings ==
    LET o == plan_args.options
    IN {[i \in 1 .. Len(o) |-> o[q[i]]] : q \in Perms(1 .. Len(o))}

DistinctModes ==
    \A i, j \in DOMAIN plan_args.options : i # j => plan_args.options[i].mode # plan_args.options[j].mode

\* C17: mode priority. Every shipment of a non-empty plan has the mode of the first
\* option, in ascending mode order (input order among equal modes), with
\* requested_volume >= 0.25 * capacity, and is that option's plan whatever the costs; a
\* higher mode is used only when every option before it yields no shipment; the result
\* does not depend on the order in which options of distinct modes are passed in.
C17_ModePriority ==
    Planned =>
        /\ PlanShipments # <<>> =>
              \E i \in DOMAIN plan_args.options :
                  /\ QuarterLoad(plan_args.requested_volume, plan_args.options[i].capacity)
                  /\ \A j \in DOMAIN plan_args.options :
                        TriedBefore(j, i) =>
                            ~QuarterLoad(plan_args.requested_volume, plan_args.options[j].capacity)
                  /\ \A k \in 1 .. Len(PlanShipments) : PlanShipments[k].mode = plan_args.options[i].mode
                  /\ plan_result = plan(plan_args.requested_volume, <<plan_args.options[i]>>)
        /\ DistinctModes =>
              \A o \in Reorderings : plan(plan_args.requested_volume, o) = plan_result

\* C17 witness: the option passed in first has the higher mode and the cheaper tariff and
\* could carry the volume, and the plan uses the other option.
C17_Witness ==
    /\ Planned
    /\ Len(plan_args.options) = 2
    /\ plan_args.options[1].mode > plan_args.options[2].mode
    /\ plan_args.options[1].cost_full < plan_args.options[2].cost_full
    /\ plan_args.options[1].capacity > 0
    /\ QuarterLoad(plan_args.requested_volume, plan_args.options[1].capacity)
    /\ PlanShipments # <<>>
    /\ PlanShipments[1].mode = plan_args.options[2].mode

\* C18: invalid capacity is fatal in planning. For requested_volume > 0, plan raises, with
\* no partial plan, exactly when it evaluates an option with capacity <= 0, that is when
\* every option tried before it yielded no shipment; such an option never becomes an
\* empty plan or a shipment.
C18_InvalidCapacityFatal ==
    (Planned /\ plan_args.requested_volume > 0) =>
        /\ plan_result.raised
              <=> \E i \in DOMAIN plan_args.options :
                      /\ plan_args.options[i].capacity <= 0
                      /\ \A j \in DOMAIN plan_args.options :
                            TriedBefore(j, i) =>
                                /\ plan_args.options[j].capacity > 0
                                /\ ~QuarterLoad(plan_args.requested_volume, plan_args.options[j].capacity)
        /\ plan_result.raised => PlanShipments = <<>>
        /\ \A k \in 1 .. Len(PlanShipments) : PlanShipments[k].qty > 0

\* C18 witness: the first option deferred the volume and the capacity 0 of the next one
\* made plan raise.
C18_Witness ==
    /\ Planned
    /\ plan_args.requested_volume > 0
    /\ Len(plan_args.options) = 2
    /\ \E i, j \in DOMAIN plan_args.options :
          /\ TriedBefore(j, i)
          /\ plan_args.options[j].capacity > 0
          /\ plan_args.options[i].capacity = 0
    /\ plan_result.raised

(***************************************************************************)
(* Specification of the build of a Network whose lanes carry transport     *)
(* attributes, followed by one planning call on the options of a lane      *)
(***************************************************************************)
DefaultMode == 1            \* add_edge: mode = 1; get_transport_options: mode None -> 1
DefaultCapacity == 100      \* add_edge: capacity = 100.0; get_transport_options: None -> 100.0
DefaultCostFull == 100      \* cost_full = 100.0
DefaultCostHalf == 60       \* cost_half = 60.0
DefaultCostQuarter == 35    \* cost_quarter = 35.0
DetLeadTime == 1            \* _det_lt_one, the sampler of add_edge without lead_time_sampler
MaxRoutes == 2              \* Edge objects held by the edge dict in SpecRoute

\* Edge with its transport attributes; an attribute left None is <<>>
RouteEdge(p, c, m, capacity, cost_full, cost_half, cost_quarter) ==
    [parent |-> p, child |-> c, mode |-> m, capacity |-> capacity,
     cost_full |-> cost_full, cost_half |-> cost_half, cost_quarter |-> cost_quarter]

\* x if x is not None else d
OrElse(x, d) == IF x = <<>> THEN d ELSE x[1]

\* self.edges.setdefault(key, []).append(e)
EdgesAppendEdge(es, e) ==
    LET i == KeyIndex(es, <<e.parent, e.child>>, 1)
    IN IF i = 0
       THEN Append(es, [key |-> <<e.parent, e.child>>, list |-> <<e>>])
       ELSE [es EXCEPT ![i].list = Append(@, e)]

\* Network.add_edge(p, c, mode = m, capacity = capacity) on the maps (es, par, ch): the
\* maps after the call, and whether it raised
add_edge_lane(es, par, ch, p, c, m, capacity) ==
    LET appended == EdgesAppendEdge(es, RouteEdge(p, c, <<m>>, <<capacity>>, <<DefaultCostFull>>,
                                                  <<DefaultCostHalf>>, <<DefaultCostQuarter>>))
    IN IF MultiParent(par, p, c)
       THEN [edges |-> appended, parents_of |-> par, children_of |-> ch, raised |-> TRUE]
       ELSE [edges |-> appended, parents_of |-> SetParent(par, p, c),
             children_of |-> AddChild(ch, p, c), raised |-> FALSE]

\* Network.get_transport_options
get_transport_options(es, p, c) ==
    LET i == KeyIndex(es, <<p, c>>, 1)
    IN IF i = 0 THEN <<>>
       ELSE [k \in 1 .. Len(es[i].list) |->
               LET e == es[i].list[k]
               IN TransportOption(<<p, c>>,
                                  OrElse(e.mode, DefaultMode),
                                  OrElse(e.capacity, DefaultCapacity),
                                  OrElse(e.cost_full, DefaultCostFull),
                                  OrElse(e.cost_half, DefaultCostHalf),
                                  OrElse(e.cost_quarter, DefaultCostQuarter),
                                  DetLeadTime)]

\* the Edge objects of a lane built as scripts/run_simulation.py builds them (no transport
\* attribute set) and built with a capacity
LegacyEdge(p, c) == RouteEdge(p, c, <<>>, <<>>, <<>>, <<>>, <<>>)
CapacityEdge(p, c, capacity) == RouteEdge(p, c, <<>>, <<capacity>>, <<>>, <<>>, <<>>)

\* edge dicts handed to the constructor
RouteEdgeDicts ==
    {<<>>,
     <<[key |-> <<"A", "B">>, list |-> <<LegacyEdge("A", "B")>>]>>,
     <<[key |-> <<"A", "B">>, list |-> <<CapacityEdge("A", "B", 0)>>]>>,
     <<[key |-> <<"A", "C">>, list |-> <<LegacyEdge("A", "C")>>],
       [key |-> <<"B", "C">>, list |-> <<CapacityEdge("B", "C", SmallCapacity)>>]>>}

RouteCapacities == Capacities \cup {DefaultCapacity}
RouteVolumes == {0, 1, MaxVolume}

InitRoute == InitNet

\* Network(edges = es) on a dict of Edge objects with transport attributes
ConstructRoutes ==
    /\ net_status = "none"
    /\ \E es \in RouteEdgeDicts :
         LET r == Built(es)
         IN /\ last_call' = [op |-> "Network", parent |-> "", child |-> "", raised |-> ~r.ok]
            /\ IF r.ok
               THEN /\ net_status' = "ok"
                    /\ edges' = es
                    /\ parents_of' = r.parents_of
                    /\ children_of' = r.children_of
               ELSE /\ net_status' = "failed"
                    /\ UNCHANGED <<edges, parents_of, children_of>>
    /\ UNCHANGED <<nodes, node_cfg, nodevars, simvars, obsvars, polvars, planvars>>

\* net.add_edge(p, c, mode = m, capacity = capacity) on a constructed network, before planning
AddRoute ==
    /\ net_status = "ok"
    /\ plan_result = <<>>
    /\ EdgeCount(edges) < MaxRoutes
    /\ \E p \in Ids, c \in Ids, m \in 1 .. MaxMode, capacity \in RouteCapacities :
         LET r == add_edge_lane(edges, parents_of, children_of, p, c, m, capacity)
         IN /\ edges' = r.edges
            /\ parents_of' = r.parents_of
            /\ children_of' = r.children_of
            /\ last_call' = [op |-> "add_edge", parent |-> p, child |-> c, raised |-> r.raised,
                             capacity |-> capacity]
    /\ UNCHANGED <<nodes, node_cfg, net_status, nodevars, simvars, obsvars, polvars, planvars>>

\* TransportPlanner().plan(V, net.get_transport_options(p, c)) on the built network
PlanRoute ==
    /\ net_status = "ok"
    /\ plan_result = <<>>
    /\ \E p \in Ids, c \in Ids, V \in RouteVolumes :
         LET options == get_transport_options(edges, p, c)
         IN /\ plan_args' = [called |-> TRUE, requested_volume |-> V, options |-> options,
                             parent |-> p, child |-> c]
            /\ plan_result' = plan(V, options)
    /\ UNCHANGED <<netvars, nodevars, simvars, obsvars, polvars>>

NextRoute ==
    \/ ConstructRoutes
    \/ AddRoute
    \/ PlanRoute

SpecRoute == InitRoute /\ [][NextRoute]_vars

(***************************************************************************)
(* Properties of the build of transport lanes (checked under SpecRoute)    *)
(***************************************************************************)
\* the Edge objects of an edge dict
EdgeObjects(es) == UNION {Range(es[i].list) : i \in 1 .. Len(es)}

NonPositiveCapacity(e) == e.capacity # <<>> /\ e.capacity[1] <= 0

\* the constructor accepted the edge dict in this step
C19_ConstructStep == net_status = "none" /\ net_status' = "ok"

\* add_edge was called in this step with a capacity <= 0
C19_AddStep ==
    /\ edges' # edges
    /\ net_status = "ok"
    /\ last_call'.op = "add_edge"
    /\ last_call'.capacity <= 0

\* no planning call on the network sees an option with capacity <= 0, and none raises
C19_PlanningStageClean ==
    Planned =>
        /\ \A i \in DOMAIN plan_args.options : plan_args.options[i].capacity > 0
        /\ ~plan_result.raised

\* C19: configuration errors surface at build time. The constructor does not accept an
\* edge dict holding a route of capacity <= 0, add_edge raises when it is given a capacity
\* <= 0, and so no planning call on the options of the network meets a capacity <= 0 or
\* raises.
C19_CapacityRejectedAtBuild ==
    /\ [](C19_PlanningStageClean)
    /\ [][/\ C19_ConstructStep => \A e \in EdgeObjects(edges') : ~NonPositiveCapacity(e)
          /\ C19_AddStep => last_call'.raised]_vars

(***************************************************************************)
(* Independence of the fulfilment phase from the iteration order of the    *)
(* set of children (checked under Spec)                                    *)
(***************************************************************************)
\* the dicts `shipped` returned by the parents: (parent, child, qty) of every shipment
ShippedPerChild(log) == {<<log[i].parent, log[i].child, log[i].qty>> : i \in 1 .. Len(log)}

\* the fulfilment phases run from this state with the iteration orders p1 and p2 and
\* the same lead-time sample L[c] for every child c end in the same node fields
SameOutcome(p1, p2, L) ==
    LET a == Served(p1, L)
        b == Served(p2, L)
    IN /\ a.on_hand = b.on_hand
       /\ a.backlog_children = b.backlog_children
       /\ a.pipeline_in = b.pipeline_in
       /\ ShippedPerChild(a.log) = ShippedPerChild(b.log)

\* C20: deterministic allocation. Two executions of the fulfilment phase from the same
\* node fields, the same queued orders and the same lead-time samples end with the same
\* shipped quantity per child, the same backlog_children and the same pipelines, whatever
\* the iteration order over the set of children, also when on_hand is smaller than the
\* total need of the children.
C20_DeterministicAllocation ==
    pc = "ship" =>
        \A p1, p2 \in Perms(ShipTargets) : \A L \in [ShipTargets -> LeadTimes] :
            SameOutcome(p1, p2, L)

(***************************************************************************)
(* Specification of runs on the chain in which any set of nodes, the       *)
(* retailer included, has infinite_supply = True                           *)
(***************************************************************************)
InitInf ==
    /\ nodes = <<"A", "B", "C">>
    /\ \E inf \in SUBSET Ids :
         node_cfg = [n \in Ids |-> [node_type |-> ChainTypes[n],
                                    infinite_supply |-> (n \in inf),
                                    initial_inventory |-> MaxInv,
                                    policy |-> RunPolicy(n)]]
    /\ edges = ChainEdges
    /\ parents_of = Built(ChainEdges).parents_of
    /\ children_of = Built(ChainEdges).children_of
    /\ net_status = "ok"
    /\ last_call = NoCall
    /\ NodesFresh
    /\ SimFresh("start", 1, "summary")
    /\ PolIdle
    /\ PlanIdle

SpecInf == InitInf /\ [][Next]_vars

(***************************************************************************)
(* Properties of nodes with infinite supply (checked under SpecInf)        *)
(***************************************************************************)
\* C21: infinite supply never decrements. No step of a run (serving child orders,
\* external demand, backlog clearing) lowers the on_hand of a node with
\* infinite_supply = True, whatever its node_type.
C21_InfiniteSupplyNeverDecrements ==
    [][\A n \in NodeSet : IsInfinite(n) => on_hand'[n] >= on_hand[n]]_vars

\* the part of C21 about serving child orders: the fulfilment phase lowers no on_hand of
\* a node with infinite supply
C21_ShipKeepsInfiniteStock ==
    [][pc = "ship" => \A n \in NodeSet : IsInfinite(n) => on_hand'[n] >= on_hand[n]]_vars

(***************************************************************************)
(* Properties of the length of a run and of its rows (checked under Spec)  *)
(***************************************************************************)
\* position of node n in the sequence seq, 0 if absent
PositionIn(seq, n) ==
    IF \E i \in 1 .. Len(seq) : seq[i] = n
    THEN CHOOSE i \in 1 .. Len(seq) : seq[i] = n
    ELSE 0

\* seq lists every node once, every parent before its children
IsTopological(seq) ==
    /\ Len(seq) = Cardinality(NodeSet)
    /\ Range(seq) = NodeSet
    /\ \A k \in EdgeKeys(edges) : PositionIn(seq, k[1]) < PositionIn(seq, k[2])

\* the k-th row is the EOD row of period (k - 1) div N and of the node at position
\* (k - 1) mod N + 1 of the topological order
C22_RowInPlace(k) ==
    LET N == Len(nodes)
    IN /\ metrics[k].phase = "EOD"
       /\ metrics[k].t = (k - 1) \div N
       /\ metrics[k].node_id = topo[((k - 1) % N) + 1]

\* the rows of the periods finished so far, and at the return of run() the rows of
\* exactly T periods
C22_Rows ==
    /\ pc \notin {"error", "assert_failed"}
    /\ pc # "start" => IsTopological(topo)
    /\ Len(metrics) = t * Len(nodes)
    /\ \A k \in 1 .. Len(metrics) : C22_RowInPlace(k)
    /\ pc = "done" => t = T /\ Len(metrics) = T * Len(nodes)

\* rows already appended are neither modified nor removed
C22_AppendOnly ==
    /\ Len(metrics') >= Len(metrics)
    /\ SubSeq(metrics', 1, Len(metrics)) = metrics

\* steps of run() still to be taken: six per period left, less the phases of the current
\* period already passed
C22_StepsLeft ==
    LET phase == CASE pc = "start" -> -1
                   [] pc = "arrivals" -> 0
                   [] pc = "backlog_clear" -> 1
                   [] pc = "demand" -> 2
                   [] pc = "ship" -> 3
                   [] pc = "order" -> 4
                   [] pc = "eod" -> 5
                   [] OTHER -> 0
    IN 6 * (T - t) - phase

\* run() is never stuck before its return and has returned when no step is left: pc is
\* a position of run(), whose step has no other guard, and the steps that draw samples,
\* an iteration order or the value of a policy have something to draw from
C22_Progress ==
    /\ C22_StepsLeft >= 0
    /\ pc \in {"start", "arrivals", "backlog_clear", "demand", "ship", "order", "eod", "done"}
    /\ pc = "start" => ENABLED Start
    /\ pc = "demand" => Demands # {}
    /\ pc = "ship" => Perms(ShipTargets) # {} /\ LeadTimes # {}
    /\ pc = "order" => Orders # {} /\ FirstRaising = 0
    /\ C22_StepsLeft = 0 <=> pc = "done"

SsPolicy(s, S) == [kind |-> "ss", s |-> s, S |-> S]
BaseStockPolicy(base_stock_level) == [kind |-> "base_stock", base_stock_level |-> base_stock_level]

\* buffer_ratio is held in hundredths
AdaptivePolicy(cover_horizon, buffer_ratio) ==
    [kind |-> "adaptive", cover_horizon |-> cover_horizon, buffer_ratio |-> buffer_ratio]

\* SsPolicy.decide_order
SsPolicy_decide_order(pol, current_inventory) ==
    IF current_inventory < pol.s THEN pol.S - current_inventory ELSE 0

\* a variant of BaseStockPolicy.decide_order without the max(0, ...)
BaseStockPolicy_decide_order_NoFloor(pol, current_inventory) ==
    pol.base_stock_level - current_inventory

\* BaseStockPolicy.decide_order
BaseStockPolicy_decide_order(pol, current_inventory) ==
    Max(0, pol.base_stock_level - current_inventory)

\* round(num / den) for den > 0: to the nearest integer, a tie to the even one
RoundHalfEven(num, den) ==
    LET q == num \div den
        r == num % den
    IN IF 2 * r < den THEN q
       ELSE IF 2 * r > den THEN q + 1
       ELSE IF q % 2 = 0 THEN q ELSE q + 1

\* AdaptivePolicy.decide_order; recent_demand is <<>> for None and <<list>> otherwise.
\* target - inventory = (cover_horizon * sum * (100 + buffer) - 100 * len * inventory)
\*                      / (100 * len)
AdaptivePolicy_decide_order(pol, inventory, recent_demand) ==
    LET recent == IF recent_demand = <<>> THEN <<>> ELSE recent_demand[1]
    IN IF Len(recent) = 0
       THEN Max(0, -inventory)
       ELSE Max(0, RoundHalfEven(pol.cover_horizon * SumSeq(recent) * (100 + pol.buffer_ratio)
                                     - 100 * Len(recent) * inventory,
                                 100 * Len(recent)))

(***************************************************************************)
(* Specification of single calls of the policies' decision methods         *)
(***************************************************************************)
MaxLevel == 3           \* s, S, base_stock_level in -1 .. MaxLevel
MaxHistory == 8         \* recent_demand holds 0 .. MaxHistory observations
DefaultHorizon == 3     \* cover_horizon = 3
DefaultBuffer == 20     \* buffer_ratio = 0.2, in hundredths

Levels == -1 .. MaxLevel
Inventories == -2 .. MaxLevel + 1
Observations == {0, MaxDemand}
Histories == UNION {[1 .. k -> Observations] : k \in 0 .. MaxHistory}

SsInputs ==
    {a \in [kind : {"ss"}, s : Levels, S : Levels, inventory : Inventories, called : {FALSE}] :
        a.S >= a.s}

BaseStockInputs ==
    [kind : {"base_stock"}, base_stock_level : Levels, inventory : Inventories, called : {FALSE}]

AdaptiveInputs ==
    [kind : {"adaptive"}, cover_horizon : {1, DefaultHorizon}, buffer_ratio : {0, DefaultBuffer},
     inventory : Inventories, recent_demand : {<<>>} \cup {<<h>> : h \in Histories},
     called : {FALSE}]

OrderUpToInputs ==
    [kind : {"order_up_to"}, R : 1 .. 2, S : Levels, phase_offset : 0 .. 1,
     t : {<<>>} \cup {<<k>> : k \in 0 .. 2},
     on_hand : -1 .. 1, backlog_external : 0 .. 1, backlog_children : 0 .. 1,
     pipeline_in : 0 .. 1, called : {FALSE}]

InitDecide ==
    /\ nodes = <<"A", "B", "C">>
    /\ node_cfg = [n \in Ids |-> [node_type |-> ChainTypes[n], infinite_supply |-> FALSE,
                                  initial_inventory |-> 0, policy |-> AnyPolicy]]
    /\ edges = <<>>
    /\ parents_of = EmptyMap
    /\ children_of = EmptyMap
    /\ net_status = "none"
    /\ last_call = NoCall
    /\ NodesFresh
    /\ SimFresh("off", 1, "summary")
    /\ pol_args \in SsInputs \cup BaseStockInputs \cup AdaptiveInputs \cup OrderUpToInputs
    /\ pol_result = <<>>
    /\ PlanIdle

\* SsPolicy(s, S).decide_order(inventory)
SsDecide ==
    /\ ~pol_args.called
    /\ pol_args.kind = "ss"
    /\ pol_result' = <<SsPolicy_decide_order(SsPolicy(pol_args.s, pol_args.S), pol_args.inventory)>>
    /\ pol_args' = [pol_args EXCEPT !.called = TRUE]
    /\ UNCHANGED <<netvars, nodevars, simvars, obsvars, planvars>>

\* BaseStockPolicy(base_stock_level).decide_order(inventory)
BaseStockDecide ==
    /\ ~pol_args.called
    /\ pol_args.kind = "base_stock"
    /\ pol_result' = <<BaseStockPolicy_decide_order(BaseStockPolicy(pol_args.base_stock_level),
                                                    pol_args.inventory)>>
    /\ pol_args' = [pol_args EXCEPT !.called = TRUE]
    /\ UNCHANGED <<netvars, nodevars, simvars, obsvars, planvars>>

\* AdaptivePolicy(None, cover_horizon, buffer_ratio).decide_order(inventory, recent_demand)
AdaptiveDecide ==
    /\ ~pol_args.called
    /\ pol_args.kind = "adaptive"
    /\ pol_result' = <<AdaptivePolicy_decide_order(
                           AdaptivePolicy(pol_args.cover_horizon, pol_args.buffer_ratio),
                           pol_args.inventory, pol_args.recent_demand)>>
    /\ pol_args' = [pol_args EXCEPT !.called = TRUE]
    /\ UNCHANGED <<netvars, nodevars, simvars, obsvars, planvars>>

\* OrderUpToPolicy(R, S, phase_offset).order_qty(...), with t or without
OrderUpToDecide ==
    /\ ~pol_args.called
    /\ pol_args.kind = "order_up_to"
    /\ pol_result' = <<order_qty(OrderUpToPolicy(pol_args.R, pol_args.S, pol_args.phase_offset),
                                 pol_args.on_hand, pol_args.backlog_external,
                                 pol_args.backlog_children, pol_args.pipeline_in, pol_args.t)>>
    /\ pol_args' = [pol_args EXCEPT !.called = TRUE]
    /\ UNCHANGED <<netvars, nodevars, simvars, obsvars, planvars>>

NextDecide ==
    \/ SsDecide
    \/ BaseStockDecide
    \/ AdaptiveDecide
    \/ OrderUpToDecide

SpecDecide == InitDecide /\ [][NextDecide]_vars

(***************************************************************************)
(* Properties of the policies' decisions (checked under SpecDecide)        *)
(***************************************************************************)
Decided(kind) == "kind" \in DOMAIN pol_args /\ pol_args.kind = kind /\ pol_args.called

\* C23: (s, S) policy. With S >= s the policy orders S - ip when ip <= s, in particular
\* at ip = s, and 0 when ip > s.
C23_SsReorderRule ==
    Decided("ss") =>
        pol_result[1] = IF pol_args.inventory <= pol_args.s
                        THEN pol_args.S - pol_args.inventory
                        ELSE 0

\* away from the reorder point itself the rule of C23 is the one of decide_order
C23_AwayFromReorderPoint ==
    (Decided("ss") /\ pol_args.inventory # pol_args.s) =>
        pol_result[1] = IF pol_args.inventory <= pol_args.s
                        THEN pol_args.S - pol_args.inventory
                        ELSE 0

\* C25: no policy returns a negative order quantity. Base-stock, (s, S) with S >= s,
\* order-up-to (with and without t) and adaptive each return a quantity >= 0 for all
\* inputs, zero and negative ones included.
C25_NoNegativeOrder ==
    \A kind \in {"ss", "base_stock", "adaptive", "order_up_to"} :
        Decided(kind) => pol_result[1] >= 0

\* C25 witness: a base-stock policy was asked with an inventory above its level and
\* answered 0.
C25_Witness ==
    /\ Decided("base_stock")
    /\ pol_args.inventory > pol_args.base_stock_level
    /\ pol_result = <<0>>

\* the last n elements of seq (all of it when it is shorter)
LastN(seq, n) == IF Len(seq) <= n THEN seq ELSE SubSeq(seq, Len(seq) - n + 1, Len(seq))

\* C27: adaptive forecast window. The forecast is the mean of only the last 7
\* observations given (0 with no history) and the order is
\* max(0, round(cover_horizon * forecast * (1 + buffer) - inventory)): the order is the
\* one decided on the last 7 observations alone.
C27_ForecastWindow ==
    (Decided("adaptive") /\ pol_args.recent_demand # <<>>) =>
        pol_result[1] = AdaptivePolicy_decide_order(
                            AdaptivePolicy(pol_args.cover_horizon, pol_args.buffer_ratio),
                            pol_args.inventory, <<LastN(pol_args.recent_demand[1], 7)>>)

\* with at most 7 observations, or none, the order is max(0, round(target - inventory))
\* on the mean of all of them
C27_ShortHistory ==
    (Decided("adaptive") /\ (pol_args.recent_demand = <<>> \/ Len(pol_args.recent_demand[1]) <= 7)) =>
        LET recent == IF pol_args.recent_demand = <<>> THEN <<>> ELSE pol_args.recent_demand[1]
            n == Len(recent)
            x == pol_result[1]
            num == pol_args.cover_horizon * SumSeq(recent) * (100 + pol_args.buffer_ratio)
                       - 100 * n * pol_args.inventory
        IN IF n = 0 THEN x = Max(0, -pol_args.inventory)
           ELSE \/ x = 0 /\ 2 * num <= 100 * n
                \/ x > 0 /\ 2 * 100 * n * x - 100 * n <= 2 * num /\ 2 * num <= 2 * 100 * n * x + 100 * n

(***************************************************************************)
(* Specification of runs on the chain whose warehouse B has a policy       *)
(* object built by build_from_config: BaseStockPolicy (the default type)   *)
(* or OrderUpToPolicy                                                      *)
(***************************************************************************)
WarehousePolicies ==
    {BaseStockPolicy(TargetLevel), OrderUpToPolicy(1, TargetLevel, 0),
     OrderUpToPolicy(ReviewPeriod, TargetLevel, 0)}

InitBase ==
    /\ nodes = <<"A", "B", "C">>
    /\ \E pol \in WarehousePolicies :
         node_cfg = [n \in Ids |-> [node_type |-> ChainTypes[n],
                                    infinite_supply |-> FALSE,
                                    initial_inventory |-> InitialInventory(n),
                                    policy |-> IF n = "B" THEN pol ELSE RunPolicy(n)]]
    /\ edges = ChainEdges
    /\ parents_of = Built(ChainEdges).parents_of
    /\ children_of = Built(ChainEdges).children_of
    /\ net_status = "ok"
    /\ last_call = NoCall
    /\ NodesFresh
    /\ SimFresh("start", 1, "summary")
    /\ PolIdle
    /\ PlanIdle

SpecBase == InitBase /\ [][Next]_vars

(***************************************************************************)
(* Properties of the orders of base-stock nodes (checked under SpecBase)   *)
(***************************************************************************)
IsBaseStock(n) == node_cfg[n].policy.kind = "base_stock"

\* max(0, S - ip) on the fields of n as they are in the ordering phase
BaseStockOrder(n, S) ==
    Max(0, S - (on_hand[n] - (backlog_external[n] + total_backlog_children(backlog_children[n]))
                + total_pipeline_in(pipeline_in[n])))

\* C24: base-stock policy in the loop. In every period the ordering phase ends with, for
\* every base-stock node with a parent, an order to the parent of max(0, S - ip), ip
\* being on_hand - (backlog_external + total backlog_children) + total pipeline_in as
\* left by the fulfilment phase of that period.
C24_BaseStockInLoop ==
    [][pc = "order" =>
          /\ pc' = "eod"
          /\ \A n \in NodeSet :
                (HasParent(n) /\ IsBaseStock(n)) =>
                    orders_today'[n] = BaseStockOrder(n, node_cfg[n].policy.base_stock_level)]_vars

\* what the loop does give: a node with OrderUpToPolicy(R, S), called without t, orders
\* max(0, S - ip) in every period
C24_OrderUpToOrdersEveryPeriod ==
    [][pc = "order" =>
          \A n \in NodeSet :
              (HasParent(n) /\ node_cfg[n].policy.kind = "order_up_to" /\ n \in Range(OrderedNodes)) =>
                  orders_today'[n] = BaseStockOrder(n, node_cfg[n].policy.S)]_vars

(***************************************************************************)
(* Specification of the node registry: Network() followed by add_node      *)
(* calls with arbitrary Node objects                                       *)
(***************************************************************************)
NodeTypes == {"warehouse", "retailer"}

\* the Node objects handed to add_node: Node(id, node_type, policy, initial_inventory)
NewNodes ==
    [node_type : NodeTypes, infinite_supply : {FALSE}, initial_inventory : 0 .. MaxInv,
     policy : {AnyPolicy}]

\* a variant of add_node that stores the node whatever the registry holds
add_node_Overwrite(reg, cfg, id, node) ==
    [nodes |-> IF id \in Range(reg) THEN reg ELSE Append(reg, id),
     node_cfg |-> (id :> node) @@ cfg,
     raised |-> FALSE]

\* Network.add_node on the registry (reg: ids in insertion order, cfg: id -> Node): the
\* registry after the call, and whether it raised
add_node(reg, cfg, id, node) ==
    IF id \in Range(reg)
    THEN [nodes |-> reg, node_cfg |-> cfg, raised |-> TRUE]
    ELSE [nodes |-> Append(reg, id), node_cfg |-> (id :> node) @@ cfg, raised |-> FALSE]

InitReg ==
    /\ nodes = <<>>
    /\ node_cfg = EmptyMap
    /\ edges = <<>>
    /\ parents_of = EmptyMap
    /\ children_of = EmptyMap
    /\ net_status = "ok"
    /\ last_call = NoCall
    /\ NodesFresh
    /\ SimFresh("off", 1, "summary")
    /\ PolIdle
    /\ PlanIdle

\* net.add_node(Node(id, ...)); the dynamic fields of a registered node are those of
\* Node.__post_init__
AddNode ==
    /\ net_status = "ok"
    /\ \E id \in Ids, node \in NewNodes :
         LET r == add_node(nodes, node_cfg, id, node)
             reg == Range(r.nodes)
         IN /\ nodes' = r.nodes
            /\ node_cfg' = r.node_cfg
            /\ last_call' = [op |-> "add_node", node_id |-> id, node |-> node, raised |-> r.raised]
            /\ on_hand' = [n \in reg |-> IF n \in NodeSet THEN on_hand[n]
                                         ELSE r.node_cfg[n].initial_inventory]
            /\ backlog_external' = [n \in reg |-> IF n \in NodeSet THEN backlog_external[n] ELSE 0]
            /\ backlog_children' = [n \in reg |-> IF n \in NodeSet THEN backlog_children[n]
                                                  ELSE EmptyMap]
            /\ pipeline_in' = [n \in reg |-> IF n \in NodeSet THEN pipeline_in[n] ELSE <<>>]
            /\ inbound_orders_queue' = [n \in reg |-> IF n \in NodeSet THEN inbound_orders_queue[n]
                                                      ELSE <<>>]
    /\ UNCHANGED <<edges, parents_of, children_of, net_status, simvars, obsvars, polvars, planvars>>

NextReg == AddNode

SpecReg == InitReg /\ [][NextReg]_vars

(***************************************************************************)
(* Properties of the node registry (checked under SpecReg)                 *)
(***************************************************************************)
\* C26: duplicate node rejection. add_node with an id already in the registry raises and
\* leaves the registry unchanged (the node object registered before is kept, the node
\* count does not change); add_node with a new id adds exactly that node.
C26_DuplicateNodeRejected ==
    [][last_call'.op = "add_node" =>
          LET id == last_call'.node_id
          IN IF id \in NodeSet
             THEN /\ last_call'.raised
                  /\ nodes' = nodes
                  /\ node_cfg' = node_cfg
                  /\ UNCHANGED nodevars
             ELSE /\ ~last_call'.raised
                  /\ Len(nodes') = Len(nodes) + 1
                  /\ Range(nodes') = NodeSet \cup {id}
                  /\ DOMAIN node_cfg' = DOMAIN node_cfg \cup {id}
                  /\ node_cfg'[id] = last_call'.node
                  /\ \A n \in NodeSet : node_cfg'[n] = node_cfg[n]]_vars

\* C26 witness: add_node was called with an id of the registry and another Node object,
\* it raised, and the registry holds the node registered first.
C26_Witness ==
    /\ last_call.op = "add_node"
    /\ last_call.raised
    /\ Len(nodes) = 2
    /\ node_cfg[last_call.node_id] # last_call.node

(***************************************************************************)
(* Properties of single Node operations within a run (checked under Spec)  *)
(***************************************************************************)
\* units child c has ordered from parent p that are handed over in this period
DueFrom(p, c) ==
    LET due == SelectSeq(Take(p), LAMBDA o : o[1] = c)
        old == SelectSeq(inbound_orders_queue[p], LAMBDA o : o.child_id = c)
    IN SumSeq([i \in 1 .. Len(due) |-> due[i][2]]) + SumSeq([i \in 1 .. Len(old) |-> old[i].qty])

\* need of child c at parent p: backlog_children[c] + queued orders
NeedOf(p, c) == Get(backlog_children[p], c, 0) + DueFrom(p, c)

\* units parent p ships to child c in the step
ShippedTo(p, c) ==
    LET sent == SelectSeq(shipped_today', LAMBDA r : r.parent = p /\ r.child = c)
    IN SumSeq([i \in 1 .. Len(sent) |-> sent[i].qty])

\* the children are served one after the other in the order ord, each with the minimum
\* of its need and of what the ones before it have left of on_hand
GreedyAlong(p, ord) ==
    \A i \in 1 .. Len(ord) :
        ShippedTo(p, ord[i]) =
            Min(on_hand[p] - SumSeq([j \in 1 .. i - 1 |-> ShippedTo(p, ord[j])]), NeedOf(p, ord[i]))

C28_ParentServed(p) ==
    LET needy == {c \in NodeSet : NeedOf(p, c) > 0}
        total == SumFn([c \in NodeSet |-> ShippedTo(p, c)])
    IN /\ \E ord \in Perms(needy) : GreedyAlong(p, ord)
       /\ \A c \in NodeSet \ needy : ShippedTo(p, c) = 0
       /\ on_hand'[p] = on_hand[p] - total
       /\ backlog_children'[p] =
              [c \in {x \in needy : NeedOf(p, x) > ShippedTo(p, x)} |-> NeedOf(p, c) - ShippedTo(p, c)]
       /\ total = Min(on_hand[p], SumFn([c \in needy |-> NeedOf(p, c)]))
       /\ inbound_orders_queue'[p] = <<>>

\* C28: child-order fulfilment rule. In process_child_orders on a parent without infinite
\* supply every child with need = backlog_children[child] + queued orders > 0 is shipped
\* min(on_hand at that moment, need), on_hand decreases by exactly the shipped amount,
\* backlog_children[child] becomes need - shipped (no entry when that is 0), the total
\* shipped is min(on_hand before the call, total need), and the inbound order queue is
\* empty afterwards.
C28_ChildOrderFulfilment ==
    [][pc = "ship" => \A p \in DueParents : ~IsInfinite(p) => C28_ParentServed(p)]_vars

\* C28 witness: a parent without infinite supply has shipped its last unit and holds a
\* backlog for two children.
C28_Witness ==
    /\ pc = "order"
    /\ shipped_today # <<>>
    /\ \E p \in NodeSet :
          /\ ~IsInfinite(p)
          /\ on_hand[p] = 0
          /\ Cardinality(DOMAIN backlog_children[p]) = 2
          /\ \E i \in 1 .. Len(shipped_today) : shipped_today[i].parent = p

\* the accounting of C29 on one call with on_hand oh, backlog_external be and demand qty
\* (a property of the function alone, looked at once, before the loop of a run)
C29_Accounting(oh, be, qty) ==
    LET r == process_external_demand(oh, be, qty)
        d == IF qty > 0 THEN qty ELSE 0
    IN /\ r.fulfilled = (IF oh < d THEN oh ELSE d)
       /\ r.fulfilled + r.unfilled = d
       /\ r.on_hand = oh - r.fulfilled
       /\ r.backlog_external = be + r.unfilled

\* the demand phase on retailer n: the returned pair and the fields after the call
C29_DemandStep(n) ==
    LET qty == demand_today'[n].demand
        d == IF qty > 0 THEN qty ELSE 0
        fulfilled == demand_today'[n].fulfilled
        unfilled == demand_today'[n].unfilled
    IN /\ fulfilled = (IF on_hand[n] < d THEN on_hand[n] ELSE d)
       /\ fulfilled + unfilled = d
       /\ on_hand'[n] = on_hand[n] - fulfilled
       /\ backlog_external'[n] = backlog_external[n] + unfilled
       /\ backlog_children'[n] = backlog_children[n]
       /\ pipeline_in'[n] = pipeline_in[n]
       /\ inbound_orders_queue'[n] = inbound_orders_queue[n]

\* C29: external demand accounting. For on_hand >= 0 and any integer qty,
\* process_external_demand returns (fulfilled, unfilled) with
\* fulfilled = min(on_hand, max(0, qty)) and fulfilled + unfilled = max(0, qty); on_hand
\* decreases by exactly fulfilled, backlog_external increases by exactly unfilled, and
\* nothing else in the node changes.
C29_ExternalDemandAccounting ==
    /\ [](pc = "start" =>
             \A oh \in 0 .. MaxInv + 1, be \in 0 .. MaxDemand, qty \in -2 .. MaxDemand + 1 :
                 C29_Accounting(oh, be, qty))
    /\ [][pc = "demand" =>
             /\ \A n \in NodeSet : IsRetailer(n) => on_hand[n] >= 0 /\ C29_DemandStep(n)
             /\ \A n \in NodeSet : ~IsRetailer(n) =>
                    on_hand'[n] = on_hand[n] /\ backlog_external'[n] = backlog_external[n]]_vars

\* C29 witness: a retailer got a demand above its on_hand, served a part of it and put
\* the rest into its backlog.
C29_Witness ==
    /\ pc = "ship"
    /\ \E n \in DOMAIN demand_today :
          /\ demand_today[n].fulfilled > 0
          /\ demand_today[n].unfilled > 0
          /\ backlog_external[n] = demand_today[n].unfilled
          /\ on_hand[n] = 0

\* positions of the entries of pl that do not arrive in period tt
StayingAt(pl, tt) == {i \in 1 .. Len(pl) : pl[i].arrival_time # tt}

\* kept is pl without the entries arriving in period tt, the others in their order
C30_OthersKept(pl, kept, tt) ==
    LET K == StayingAt(pl, tt)
    IN /\ Len(kept) = Cardinality(K)
       /\ \A i \in K : kept[Cardinality({x \in K : x <= i})] = pl[i]

\* units of the entries of pl that arrive in period tt
C30_Arriving(pl, tt) ==
    SumFn([i \in (1 .. Len(pl)) \ StayingAt(pl, tt) |-> pl[i].qty])

\* the arrivals phase of a run receives as C30 says, for every node
C30_ArrivalsPhase ==
    [][pc = "arrivals" =>
          \A n \in NodeSet :
              /\ C30_OthersKept(pipeline_in[n], pipeline_in'[n], t)
              /\ received_today'[n] = C30_Arriving(pipeline_in[n], t)
              /\ on_hand'[n] = on_hand[n] + C30_Arriving(pipeline_in[n], t)]_vars

(***************************************************************************)
(* Specification of calls of Node.receive_shipments(t) on node A with an   *)
(* arbitrary pipeline, repeated with the same t                            *)
(***************************************************************************)
MaxPipeLen == 3         \* entries of A's pipeline 0 .. MaxPipeLen
MaxCalls == 2           \* calls of receive_shipments with the same t

PipelineShipments == {Shipment(a, q) : a \in 0 .. 2, q \in 1 .. 2}
Pipelines == UNION {[1 .. k -> PipelineShipments] : k \in 0 .. MaxPipeLen}

InitRecv ==
    /\ nodes = <<"A", "B", "C">>
    /\ node_cfg = [n \in Ids |-> [node_type |-> ChainTypes[n], infinite_supply |-> FALSE,
                                  initial_inventory |-> 0, policy |-> AnyPolicy]]
    /\ edges = <<>>
    /\ parents_of = EmptyMap
    /\ children_of = EmptyMap
    /\ net_status = "none"
    /\ last_call = [op |-> "none", returned |-> <<>>]
    /\ on_hand \in [NodeSet -> 0 .. 1]
    /\ on_hand["B"] = 0 /\ on_hand["C"] = 0
    /\ backlog_external = [n \in NodeSet |-> 0]
    /\ backlog_children = [n \in NodeSet |-> EmptyMap]
    /\ \E pl \in Pipelines : pipeline_in = [n \in NodeSet |-> IF n = "A" THEN pl ELSE <<>>]
    /\ inbound_orders_queue = [n \in NodeSet |-> <<>>]
    /\ pc = "off"
    /\ t \in 0 .. 2
    /\ topo = <<>>
    /\ order_processing_delay = 1
    /\ mode = "summary"
    /\ orders_waiting = EmptyMap
    /\ received_today = Zero
    /\ orders_today = Zero
    /\ metrics = <<>>
    /\ demand_today = EmptyMap
    /\ cleared_today = Zero
    /\ shipped_today = <<>>
    /\ served_total = 0
    /\ prev_on_hand = on_hand
    /\ prev_served = [n \in NodeSet |-> [fulfilled |-> 0, cleared |-> 0]]
    /\ PolIdle
    /\ PlanIdle

\* rec = A.receive_shipments(t); the values returned so far are kept in last_call
Receive ==
    /\ pc = "off"
    /\ Len(last_call.returned) < MaxCalls
    /\ LET r == receive_shipments(pipeline_in["A"], t)
       IN /\ pipeline_in' = [pipeline_in EXCEPT !["A"] = r.keep]
          /\ on_hand' = [on_hand EXCEPT !["A"] = @ + r.arrived]
          /\ last_call' = [op |-> "receive_shipments", returned |-> Append(last_call.returned, r.arrived)]
    /\ UNCHANGED <<nodes, node_cfg, edges, parents_of, children_of, net_status>>
    /\ UNCHANGED <<backlog_external, backlog_children, inbound_orders_queue>>
    /\ UNCHANGED <<simvars, obsvars, polvars, planvars>>

NextRecv == Receive

SpecRecv == InitRecv /\ [][NextRecv]_vars

(***************************************************************************)
(* Properties of receive_shipments (checked under SpecRecv)                *)
(***************************************************************************)
\* the value returned by the call of this step
C30_Returned == last_call'.returned[Len(last_call'.returned)]

\* C30: receive_shipments(t) removes exactly the pipeline entries with arrival_time = t,
\* adds their total quantity to on_hand, returns that total and leaves the other entries
\* in their relative order; a second call with the same t returns 0 and changes nothing,
\* so each shipment is consumed once.
C30_ReceiveOnce ==
    [][last_call'.op = "receive_shipments" =>
          /\ C30_OthersKept(pipeline_in["A"], pipeline_in'["A"], t)
          /\ C30_Returned = C30_Arriving(pipeline_in["A"], t)
          /\ on_hand'["A"] = on_hand["A"] + C30_Returned
          /\ \A n \in NodeSet \ {"A"} : on_hand'[n] = on_hand[n] /\ pipeline_in'[n] = pipeline_in[n]
          /\ last_call.op = "receive_shipments" =>
                /\ C30_Returned = 0
                /\ pipeline_in' = pipeline_in
                /\ on_hand' = on_hand]_vars

\* C30 witness: the first call took the arrived shipments out and left two others in
\* their order, the second call with the same t returned 0.
C30_Witness ==
    /\ last_call.op = "receive_shipments"
    /\ Len(last_call.returned) = 2
    /\ last_call.returned[1] > 0
    /\ last_call.returned[2] = 0
    /\ Len(pipeline_in["A"]) = 2
    /\ pipeline_in["A"][1].arrival_time > pipeline_in["A"][2].arrival_time

(***************************************************************************)
(* Specification of the inbound order queue: calls of add_inbound_order    *)
(* and process_child_orders on node A of the tree, with any stock and      *)
(* child backlog, next to the runs on the tree                             *)
(***************************************************************************)
MaxAdds == 2            \* calls of add_inbound_order on A
MaxQty == 2             \* quantities 1 .. MaxQty of a queued order

\* the child backlogs A starts with
InitialBacklogs == {EmptyMap, "B" :> 1}

NoNodeCall == [op |-> "none", adds |-> 0, calls |-> 0]

\* node A with children B and C, before any call
InitNodeCalls ==
    /\ nodes = <<"A", "B", "C">>
    /\ \E inf \in BOOLEAN :
         node_cfg = [n \in Ids |-> [node_type |-> TreeTypes[n], infinite_supply |-> (n = "A" /\ inf),
                                    initial_inventory |-> 0, policy |-> AnyPolicy]]
    /\ edges = TreeEdges
    /\ parents_of = Built(TreeEdges).parents_of
    /\ children_of = Built(TreeEdges).children_of
    /\ net_status = "ok"
    /\ last_call = NoNodeCall
    /\ on_hand \in [NodeSet -> 0 .. MaxQty]
    /\ on_hand["B"] = 0 /\ on_hand["C"] = 0
    /\ backlog_external = [n \in NodeSet |-> 0]
    /\ \E b \in InitialBacklogs : backlog_children = [n \in NodeSet |-> IF n = "A" THEN b ELSE EmptyMap]
    /\ pipeline_in = [n \in NodeSet |-> <<>>]
    /\ inbound_orders_queue = [n \in NodeSet |-> <<>>]
    /\ SimFresh("off", 1, "summary")
    /\ PolIdle
    /\ PlanIdle

\* a run on the tree with a finite root, or node A on its own
InitQueue ==
    \/ Init /\ edges = TreeEdges /\ ~IsInfinite("A")
    \/ InitNodeCalls

\* A.add_inbound_order(c, q)
AddInboundOrder ==
    /\ pc = "off"
    /\ last_call.adds < MaxAdds
    /\ \E c \in {"B", "C"}, q \in 1 .. MaxQty :
         /\ inbound_orders_queue' = [inbound_orders_queue EXCEPT !["A"] = add_inbound_order(@, c, q)]
         /\ last_call' = [op |-> "add_inbound_order", adds |-> last_call.adds + 1,
                          calls |-> last_call.calls, child_id |-> c, qty |-> q]
    /\ UNCHANGED <<nodes, node_cfg, edges, parents_of, children_of, net_status>>
    /\ UNCHANGED <<on_hand, backlog_external, backlog_children, pipeline_in>>
    /\ UNCHANGED <<simvars, obsvars, polvars, planvars>>

\* the ids A iterates over in process_child_orders
NodeCallTargets ==
    ServedSet(Range(children("A")), backlog_children["A"],
              MergeIncoming(inbound_orders_queue["A"], EmptyMap))

\* shipped = A.process_child_orders(t, child_nodes, lt_map), the samplers of lt_map being
\* the default deterministic one of an Edge
ProcessChildOrders ==
    /\ pc = "off"
    /\ last_call.calls < MaxCalls
    /\ \E perm \in Perms(NodeCallTargets) :
         LET L == [c \in NodeCallTargets |-> DetLeadTime]
             r == process_child_orders("A", IsInfinite("A"), on_hand["A"], backlog_children["A"],
                                       inbound_orders_queue["A"], pipeline_in,
                                       Range(children("A")), perm, L, t)
         IN /\ on_hand' = [on_hand EXCEPT !["A"] = r.on_hand]
            /\ backlog_children' = [backlog_children EXCEPT !["A"] = r.backlog]
            /\ pipeline_in' = r.pipes
            /\ inbound_orders_queue' = [inbound_orders_queue EXCEPT !["A"] = r.queue]
            /\ last_call' = [op |-> "process_child_orders", adds |-> last_call.adds,
                             calls |-> last_call.calls + 1, shipped |-> r.shipped]
    /\ UNCHANGED <<nodes, node_cfg, edges, parents_of, children_of, net_status>>
    /\ UNCHANGED backlog_external
    /\ UNCHANGED <<simvars, obsvars, polvars, planvars>>

NextQueue ==
    \/ Next
    \/ AddInboundOrder
    \/ ProcessChildOrders

SpecQueue == InitQueue /\ [][NextQueue]_vars

(***************************************************************************)
(* Properties of the inbound order queue (checked under SpecQueue)         *)
(***************************************************************************)
\* total quantity of the entries of child c in a queue
QueuedFor(queue, c) ==
    LET mine == SelectSeq(queue, LAMBDA o : o.child_id = c)
    IN SumSeq([i \in 1 .. Len(mine) |-> mine[i].qty])

\* the step is a call of add_inbound_order on A
C31_AddStep ==
    /\ pc = "off"
    /\ last_call'.op = "add_inbound_order"
    /\ last_call'.adds = last_call.adds + 1

\* the step is a call of process_child_orders on A
C31_ProcessStep ==
    /\ pc = "off"
    /\ last_call'.op = "process_child_orders"
    /\ last_call'.calls = last_call.calls + 1

\* C31: add_inbound_order appends one (child, qty) entry to inbound_orders_queue and
\* leaves on_hand, backlog_children, backlog_external and pipeline_in as they were; the
\* next process_child_orders call empties the queue and turns the queued quantity of
\* every child, with the child's backlog, into units shipped or units of backlog; and
\* between the phases of a run, so at the end of every period, every queue is empty.
C31_EnqueueOnly ==
    /\ [](pc # "off" => \A n \in NodeSet : inbound_orders_queue[n] = <<>>)
    /\ [][C31_AddStep =>
            /\ inbound_orders_queue'["A"] =
                   Append(inbound_orders_queue["A"],
                          IncomingOrder(last_call'.child_id, last_call'.qty))
            /\ \A n \in NodeSet \ {"A"} : inbound_orders_queue'[n] = inbound_orders_queue[n]
            /\ UNCHANGED <<on_hand, backlog_children, backlog_external, pipeline_in>>]_vars
    /\ [][C31_ProcessStep =>
            /\ inbound_orders_queue'["A"] = <<>>
            /\ \A c \in {"B", "C"} :
                 Get(last_call'.shipped, c, 0) + Get(backlog_children'["A"], c, 0)
                     = Get(backlog_children["A"], c, 0) + QueuedFor(inbound_orders_queue["A"], c)]_vars

\* C31 witness: two orders of child B were queued while on_hand and the backlog stayed
\* as they were, and the call of process_child_orders that followed shipped a part of
\* them and put the rest into backlog_children.
C31_Witness ==
    /\ pc = "off"
    /\ last_call.op = "process_child_orders"
    /\ last_call.adds = 2
    /\ inbound_orders_queue["A"] = <<>>
    /\ Get(last_call.shipped, "B", 0) = 2
    /\ Get(backlog_children["A"], "B", 0) = 2
    /\ "C" \notin DOMAIN backlog_children["A"]

(***************************************************************************)
(* Specification of runs over networks of every shape: any registry order, *)
(* an edge dict handed to the constructor, then at most one add_edge call  *)
(* (accepted or rejected); the nodes hold no stock and order nothing       *)
(***************************************************************************)
\* edge dicts handed to the constructor: no edge, one edge with C isolated, chain, tree
ShapeEdgeDicts == {<<>>, <<EdgeEntry("A", "B")>>, ChainEdges, TreeEdges}

\* the add_edge calls after construction; <<>> for none
ShapeCalls == {<<>>} \cup (Ids \X Ids)

InitShape ==
    /\ nodes \in Perms(Ids)
    /\ node_cfg = [n \in Ids |-> [node_type |-> "warehouse", infinite_supply |-> FALSE,
                                  initial_inventory |-> 0, policy |-> OrderUpToPolicy(1, 0, 0)]]
    /\ \E es \in ShapeEdgeDicts, call \in ShapeCalls :
         LET b == Built(es)
             r == add_edge(es, b.parents_of, b.children_of, call[1], call[2])
         IN IF call = <<>>
            THEN /\ edges = es
                 /\ parents_of = b.parents_of
                 /\ children_of = b.children_of
                 /\ last_call = NoCall
            ELSE /\ edges = r.edges
                 /\ parents_of = r.parents_of
                 /\ children_of = r.children_of
                 /\ last_call = [op |-> "add_edge", parent |-> call[1], child |-> call[2],
                                 raised |-> r.raised]
    /\ net_status = "ok"
    /\ NodesFresh
    /\ SimFresh("start", 1, "summary")
    /\ PolIdle
    /\ PlanIdle

SpecShape == InitShape /\ [][Next]_vars

(***************************************************************************)
(* Properties of _topological_order (checked under SpecShape)              *)
(***************************************************************************)
\* over the keys of the edge dict no child has two parents
SingleSourced == \A k1, k2 \in EdgeKeys(edges) : k1[2] = k2[2] => k1[1] = k2[1]

\* C32: on every network whose edges are acyclic and single-sourced, with or without
\* isolated nodes and parallel routes of one (parent, child) pair, _topological_order
\* raises nothing and returns every registered node exactly once, every parent before
\* each of its children.
C32_TopologicalOrder ==
    (pc # "start" /\ ~HasCycle /\ SingleSourced) => (pc # "error" /\ IsTopological(topo))

\* C32 witness: the registry is B, C, A, the pair (A, B) has two routes and C is
\* isolated; the run went through with the order C, A, B.
C32_Witness ==
    /\ pc = "done"
    /\ nodes = <<"B", "C", "A">>
    /\ Len(edges) = 1
    /\ edges[1].key = <<"A", "B">>
    /\ Len(edges[1].list) = 2
    /\ topo = <<"C", "A", "B">>

(***************************************************************************)
(* Properties of the child backlog over the periods (checked under Spec)   *)
(***************************************************************************)
\* node p holds stock and owes units to a child
OwesWithStock(p) ==
    /\ on_hand[p] > 0
    /\ \E c \in DOMAIN backlog_children[p] : backlog_children[p][c] > 0

\* C33: child backlog is served when stock becomes available: once the fulfilment phase
\* of a period is over, no non-infinite parent holds both positive on_hand and a
\* positive backlog_children entry, also when no new child order was due at it.
C33_BacklogServedWhenStocked ==
    pc \in {"order", "eod"} => \A p \in NodeSet : ~IsInfinite(p) => ~OwesWithStock(p)

\* the EOD rows of node c
EodRows(c) == SelectSeq(metrics, LAMBDA r : r.phase = "EOD" /\ r.node_id = c)

\* cumulative quantity of c's orders that became due at its parent in the periods
\* completed so far: the positive orders placed in a period tt with tt + delay < t (an
\* order is taken in the fulfilment phase of the period equal to its process time,
\* which comes after the period of its placement)
DueSoFar(c) ==
    LET placed == SelectSeq(EodRows(c), LAMBDA r : r.orders_to_parent > 0
                                                   /\ order_processing_delay >= 1
                                                   /\ r.t + order_processing_delay < t)
    IN SumSeq([i \in 1 .. Len(placed) |-> placed[i].orders_to_parent])

\* cumulative quantity shipped to c: the units c received and the units on their way
ShippedSoFar(c) ==
    LET rows == EodRows(c)
    IN SumSeq([i \in 1 .. Len(rows) |-> rows[i].received]) + total_pipeline_in(pipeline_in[c])

\* C34: order accounting: at the end of every period and for every parent-child pair,
\* the cumulative quantity of the child's orders that became due at the parent equals
\* the cumulative quantity shipped to the child plus the parent's backlog_children
\* entry of the child (0 if absent).
C34_OrderAccounting ==
    pc \in {"arrivals", "done"} =>
        \A c \in NodeSet : HasParent(c) =>
            DueSoFar(c) = ShippedSoFar(c) + Get(backlog_children[parent_of(c)[1]], c, 0)

\* C34 witness: at the end of a run two units of C's orders became due at B, of which
\* one was shipped and one is backlog, while B's own orders were shipped in full.
C34_Witness ==
    /\ pc = "done"
    /\ parent_of("C") = <<"B">>
    /\ DueSoFar("C") = 2
    /\ ShippedSoFar("C") = 1
    /\ Get(backlog_children["B"], "C", 0) = 1
    /\ DueSoFar("B") > 0
    /\ DueSoFar("B") = ShippedSoFar("B")

(***************************************************************************)
(* Properties of a retailer's stock and backlog (checked under Spec)       *)
(***************************************************************************)
\* C35: once the backlog-clearing phase of a period is over, so after that phase, after
\* the demand phase and at the end of the period, no non-infinite retailer has both
\* on_hand > 0 and backlog_external > 0.
C35_StockOrBacklog ==
    pc \in {"demand", "ship", "order", "eod", "arrivals", "done"} =>
        \A n \in NodeSet : (IsRetailer(n) /\ ~IsInfinite(n)) =>
            ~(on_hand[n] > 0 /\ backlog_external[n] > 0)

\* C35 witness: retailer C had arrivals and backlog at once in period 2; the clearing
\* phase used up the stock, and after the demand phase C holds backlog and no stock.
C35_Witness ==
    /\ pc = "ship"
    /\ t = 2
    /\ IsRetailer("C") /\ ~IsInfinite("C")
    /\ received_today["C"] > 0
    /\ cleared_today["C"] = received_today["C"]
    /\ on_hand["C"] = 0
    /\ backlog_external["C"] > 0

(***************************************************************************)
(* Specification of runs on the chain in which every node orders up to a   *)
(* level: the warehouse B starts with or without stock, the retailer C     *)
(* starts empty, order_processing_delay is 1 .. MaxDelay                   *)
(***************************************************************************)
\* order-up-to levels of the retailer
RetailerLevels == {1, TargetLevel}

InitUpTo ==
    /\ nodes = <<"A", "B", "C">>
    /\ \E inf \in BOOLEAN, b \in {0, MaxInv}, s \in RetailerLevels :
         node_cfg = [n \in Ids |-> [node_type |-> ChainTypes[n],
                                    infinite_supply |-> (n = "A" /\ inf),
                                    initial_inventory |-> IF n = "A" THEN MaxInv
                                                          ELSE IF n = "B" THEN b ELSE 0,
                                    policy |-> IF n = "C" THEN OrderUpToPolicy(1, s, 0)
                                               ELSE OrderUpToPolicy(1, TargetLevel, 0)]]
    /\ edges = ChainEdges
    /\ parents_of = Built(ChainEdges).parents_of
    /\ children_of = Built(ChainEdges).children_of
    /\ net_status = "ok"
    /\ last_call = NoCall
    /\ NodesFresh
    /\ \E d \in 1 .. MaxDelay : SimFresh("start", d, "summary")
    /\ PolIdle
    /\ PlanIdle

SpecUpTo == InitUpTo /\ [][Next]_vars

(***************************************************************************)
(* Properties of the order-up-to level in a run (checked under SpecUpTo)   *)
(***************************************************************************)
\* the inventory position of node n as the policy reads it
PositionOf(n) ==
    InventoryPosition(on_hand[n], backlog_external[n], total_backlog_children(backlog_children[n]),
                      total_pipeline_in(pipeline_in[n]))

\* C36: order-up-to bound: at the end of every period the inventory position of a
\* non-root node that orders up to S, and started with a position of at most S, is at
\* most S, whatever the demand, the lead times, the order_processing_delay >= 1 and
\* the stock of its parent; units ordered and not yet shipped are not ordered again.
C36_OrderUpToBound ==
    pc \in {"arrivals", "done"} =>
        \A n \in NodeSet :
            (HasParent(n) /\ node_cfg[n].policy.kind = "order_up_to"
                          /\ node_cfg[n].initial_inventory <= node_cfg[n].policy.S)
                => PositionOf(n) <= node_cfg[n].policy.S

(***************************************************************************)
(* Specification of runs in either mode: "summary" or "detailed", on the   *)
(* chain and the tree with a finite root                                   *)
(***************************************************************************)
Modes == {"summary", "detailed"}

InitMode ==
    /\ nodes = <<"A", "B", "C">>
    /\ \E top \in Topologies :
         /\ node_cfg = [n \in Ids |-> [node_type |-> top.types[n],
                                       infinite_supply |-> FALSE,
                                       initial_inventory |-> InitialInventory(n),
                                       policy |-> RunPolicy(n)]]
         /\ edges = top.edges
         /\ parents_of = Built(top.edges).parents_of
         /\ children_of = Built(top.edges).children_of
    /\ net_status = "ok"
    /\ last_call = NoCall
    /\ NodesFresh
    /\ \E m \in Modes : SimFresh("start", 1, m)
    /\ PolIdle
    /\ PlanIdle

SpecMode == InitMode /\ [][Next]_vars

\* a step of a run whose mode is m and whose list of rows goes from rows to rowsNext
NextIn(m, rows, rowsNext) ==
    \/ StartIn(m, rows, rowsNext)
    \/ ArrivalsIn(m, rows, rowsNext)
    \/ BacklogClearIn(m, rows, rowsNext)
    \/ DemandIn(m, rows, rowsNext)
    \/ ShipIn(m, rows, rowsNext)
    \/ OrderIn(m, rows, rowsNext)
    \/ EodIn(m, rows, rowsNext)

(***************************************************************************)
(* Properties of the recording (checked under SpecMode)                    *)
(***************************************************************************)
\* the EOD rows of a list of rows, in their order
EodOnly(rows) == SelectSeq(rows, LAMBDA r : r.phase = "EOD")

\* every step of a detailed run is a step of the summary run on the same node and
\* simulator state, the same demand, lead-time and policy samples, whose rows are the
\* EOD rows of the detailed run
C37_StepOfSummaryRun ==
    mode = "detailed" => NextIn("summary", EodOnly(metrics), EodOnly(metrics'))

\* received_today is set to the arrivals of the period in the arrivals phase and kept
C37_Received ==
    /\ pc = "arrivals" =>
         \A n \in NodeSet : /\ received_today'[n] = C30_Arriving(pipeline_in[n], t)
                            /\ on_hand'[n] = on_hand[n] + received_today'[n]
    /\ pc # "arrivals" => received_today' = received_today

\* orders_today is set in the ordering phase to the value the policy returned, 0 for a
\* node without parent, and kept up to the EOD rows
C37_Ordered ==
    /\ pc = "order" =>
         \A n \in NodeSet :
            /\ ~HasParent(n) => orders_today'[n] = 0
            /\ (HasParent(n) /\ node_cfg[n].policy.kind = "order_up_to") =>
                  orders_today'[n] = Max(0, node_cfg[n].policy.S - PositionOf(n))
            /\ HasParent(n) =>
                  LET placed == Get(orders_waiting', parent_of(n)[1], <<>>)
                      mine == <<t + order_processing_delay, n, orders_today'[n]>>
                  IN orders_today'[n] > 0 <=> mine \in Range(placed)
    /\ pc = "eod" => orders_today' = orders_today

\* the rows appended at the end of a period: one EOD row per node with the flows of the period
C37_EodRows ==
    pc = "eod" =>
        /\ Len(metrics') = Len(metrics) + Len(topo)
        /\ \A k \in 1 .. Len(topo) :
             LET r == metrics'[Len(metrics) + k]
             IN /\ r.phase = "EOD" /\ r.t = t /\ r.node_id = topo[k]
                /\ r.received = received_today[topo[k]]
                /\ r.orders_to_parent = orders_today[topo[k]]

\* C37: recording does not affect the simulation: a detailed run passes through the node
\* states of the summary run with the same inputs, its EOD rows are, in order, the rows
\* of the summary run, and every EOD row carries the units the node received in the
\* arrivals phase of its period and the quantity its policy returned in that period (0
\* for a node without parent).
C37_RecordingIsPassive ==
    [][C37_StepOfSummaryRun /\ C37_Received /\ C37_Ordered /\ C37_EodRows]_vars

\* C37 witness: a detailed run returned with rows of the intermediate phases, among
\* them one of a backlog clearing, and with an EOD row that carries an arrival and an
\* EOD row that carries an order.
C37_Witness ==
    /\ mode = "detailed"
    /\ pc = "done"
    /\ \E i, j, k \in 1 .. Len(metrics) :
         /\ metrics[i].phase = "after_backlog_clear"
         /\ metrics[j].phase = "EOD" /\ metrics[j].received > 0
         /\ metrics[k].phase = "EOD" /\ metrics[k].orders_to_parent > 0

(***************************************************************************)
(* Specification of lead-time samples on a (parent, child) pair with       *)
(* several routes: lead_time_sampler_by_child("A")["B"]() for a draw r of  *)
(* random.random(). Shares are in tenths, a draw is DrawN / DrawScale.     *)
(***************************************************************************)
MaxMixRoutes == 3       \* routes of the pair (A, B) 1 .. MaxMixRoutes
DrawScale == 4          \* draws r = 0, 1 / DrawScale, .., 1
UnitWeight == 10        \* the weight 1.0 of a route without a positive share

\* share = None, 0.0, 0.3, 0.7
Shares == {<<>>, <<0>>, <<3>>, <<7>>}

\* an Edge with its share; its lead_time_sampler returns the constant L
ShareEdge(p, c, share, L) == [parent |-> p, child |-> c, share |-> share, lead_time_sampler |-> L]

\* the route lists of the pair: the sampler of the i-th route returns i
RouteLists ==
    UNION {{[i \in 1 .. k |-> ShareEdge("A", "B", sh[i], i)] : sh \in [1 .. k -> Shares]}
           : k \in 1 .. MaxMixRoutes}

\* weights of _mixed_sampler
Weights(edge_list) ==
    [i \in 1 .. Len(edge_list) |->
        IF edge_list[i].share # <<>> /\ edge_list[i].share[1] > 0
        THEN edge_list[i].share[1]
        ELSE UnitWeight]

\* the loop of sample(): acc is the sum of the weights up to route i - 1, and r <= acc / total
\* is compared as r * total <= acc, r being drawN / DrawScale
RECURSIVE SampleFrom(_, _, _, _, _)
SampleFrom(edge_list, w, i, acc, drawN) ==
    IF i > Len(edge_list)
    THEN [route |-> Len(edge_list), invoked |-> <<Len(edge_list)>>,
          returned |-> edge_list[Len(edge_list)].lead_time_sampler]
    ELSE IF drawN * SumSeq(w) <= (acc + w[i]) * DrawScale
    THEN [route |-> i, invoked |-> <<i>>, returned |-> edge_list[i].lead_time_sampler]
    ELSE SampleFrom(edge_list, w, i + 1, acc + w[i], drawN)

\* Network._mixed_sampler(edge_list) called with the draw drawN / DrawScale
mixed_sampler(edge_list, drawN) == SampleFrom(edge_list, Weights(edge_list), 1, 0, drawN)

\* the callable lead_time_sampler_by_child gives for the pair, called with that draw
lead_time_sampler_by_child(edge_list, drawN) ==
    IF Len(edge_list) = 1
    THEN [route |-> 1, invoked |-> <<1>>, returned |-> edge_list[1].lead_time_sampler]
    ELSE mixed_sampler(edge_list, drawN)

InitMix ==
    /\ nodes = <<"A", "B", "C">>
    /\ node_cfg = [n \in Ids |-> [node_type |-> ChainTypes[n], infinite_supply |-> FALSE,
                                  initial_inventory |-> 0, policy |-> AnyPolicy]]
    /\ \E routes \in RouteLists : edges = <<[key |-> <<"A", "B">>, list |-> routes]>>
    /\ parents_of = Built(edges).parents_of
    /\ children_of = Built(edges).children_of
    /\ net_status = "ok"
    /\ last_call = [op |-> "none"]
    /\ NodesFresh
    /\ SimFresh("off", 1, "summary")
    /\ PolIdle
    /\ PlanIdle

\* L = lt_map["B"]() with the draw drawN / DrawScale
SampleLeadTime ==
    /\ pc = "off"
    /\ \E drawN \in 0 .. DrawScale :
         LET r == lead_time_sampler_by_child(edges[1].list, drawN)
         IN last_call' = [op |-> "sample", drawN |-> drawN, route |-> r.route,
                          invoked |-> r.invoked, returned |-> r.returned]
    /\ UNCHANGED <<nodes, node_cfg, edges, parents_of, children_of, net_status>>
    /\ UNCHANGED <<nodevars, simvars, obsvars, polvars, planvars>>

NextMix == SampleLeadTime

SpecMix == InitMix /\ [][NextMix]_vars

(***************************************************************************)
(* Properties of the route selection (checked under SpecMix)               *)
(***************************************************************************)
\* the shares of the routes: the given ones, or one each when no route gives a share
SharesOf(edge_list) ==
    [i \in 1 .. Len(edge_list) |->
        IF \A j \in 1 .. Len(edge_list) : edge_list[j].share = <<>>
        THEN 1
        ELSE edge_list[i].share[1]]

\* the shares are stated: by no route or by every route, and not all of them are zero
SharesStated(edge_list) ==
    /\ \/ \A j \in 1 .. Len(edge_list) : edge_list[j].share = <<>>
       \/ \A j \in 1 .. Len(edge_list) : edge_list[j].share # <<>>
    /\ SumSeq(SharesOf(edge_list)) > 0

\* the first route whose cumulative normalized share is >= drawN / DrawScale, the last
\* route if there is none
RouteFor(edge_list, drawN) ==
    LET sh == SharesOf(edge_list)
        reach == {i \in 1 .. Len(edge_list) :
                      SumSeq(SubSeq(sh, 1, i)) * DrawScale >= drawN * SumSeq(sh)}
    IN IF reach = {} THEN Len(edge_list) ELSE CHOOSE i \in reach : \A j \in reach : i <= j

\* the routes of the sampled pair
MixRoutes == edges[1].list

\* C38: route selection among parallel routes: for a draw r the sample comes from the
\* first route, in insertion order, whose cumulative normalized share is >= r (the last
\* route if none reaches r); a single route is always used; without any share the
\* routes have equal weight; exactly one route's sampler is invoked per sample.
C38_RouteSelection ==
    (last_call.op = "sample" /\ SharesStated(MixRoutes)) =>
        /\ last_call.route = RouteFor(MixRoutes, last_call.drawN)
        /\ last_call.invoked = <<last_call.route>>
        /\ last_call.returned = MixRoutes[last_call.route].lead_time_sampler

\* the statement of C38 restricted to pairs none of whose routes has the share 0 next
\* to routes with a share
C38_PositiveShares ==
    (\A i \in 1 .. Len(MixRoutes) : MixRoutes[i].share # <<0>>) => C38_RouteSelection

====
